---- MODULE Spec2Model ----
(***************************************************************************)
(* Task offloading decision engine: the Branch-and-Bound solver            *)
(* (algorithms/branch_and_bound.py), its cost model, and the topological  *)
(* orderer shared with the heuristic path (algorithms/gnn_il_pcr.py).      *)
(*                                                                         *)
(* Numbers.  The code computes in floats; the model computes the same      *)
(* formulas exactly, over integers and fractions:                          *)
(*   - computing_cycles, data sizes, cpu_freq and data_rate are integers   *)
(*     chosen so that every quotient the cost model takes is exact;        *)
(*   - energy_coefficient is held in units of 1e-9 and tx_power in units   *)
(*     of 1e-9 W, so the code's factor 1e9 is absorbed by the unit;        *)
(*   - a cost (alpha*delay + beta*energy + gamma*variance) is a fraction,  *)
(*     held as a mixed number w + r/d in lowest terms, or infinity.        *)
(* Python lists are 0-based: a list is a function on 0..n-1.               *)
(***************************************************************************)
EXTENDS Integers, Sequences, FiniteSets, TLC

VARIABLES
    tasks,            \* self.tasks: the batch, a 0-based list of Task records
    devices,          \* self.devices: 0-based list of Device attribute records
    servers,          \* self.servers: 0-based list of Server attribute records
    device_load,      \* Device.current_load, by device index
    server_load,      \* Server.current_load, by server index
    pc,               \* where the control is
    pruning,          \* TRUE: both pruning checks of execute are in force
    runs,             \* solver invocations started on these devices/servers
    initial_state,    \* execute's local initial_state
    priority_queue,   \* execute's heap: a set of (bound, id, state) entries
    state_counter,    \* execute's state_counter
    task_order,       \* execute's task_order (result of _topological_sort)
    best_cost,        \* self.best_cost
    best_solution,    \* self.best_solution (NoSolution for None)
    result,           \* what execute returned
    execution_order,  \* heuristic path: execution_order of GNNILPCR.execute
    executed,         \* heuristic path: batch indices in the order executed
    cache,            \* heuristic path: self.cache, by server id
    now,              \* time.time(), in units of 200 * ln 2 seconds
    stats,            \* heuristic path: cache_hits, offloaded_tasks, local_tasks
    lookup,           \* heuristic path: the last cache lookup of execute
    expert,           \* get_expert_data: its activation and the list returned
    costs             \* the (delay, energy) pairs the cost functions returned

vars == <<tasks, devices, servers, device_load, server_load, pc, pruning, runs,
          initial_state, priority_queue, state_counter, task_order, best_cost,
          best_solution, result, execution_order, executed, cache, now,
          stats, lookup, expert, costs>>

solverVars == <<device_load, server_load, pruning, runs, initial_state,
                priority_queue, state_counter, best_cost, best_solution, result,
                expert, costs>>

heuristicVars == <<cache, now, stats, lookup>>

-----------------------------------------------------------------------------
(* Bounds of the model.                                                    *)

MaxTasks == 2
MaxRuns == 2
MaxSortTasks == 3

-----------------------------------------------------------------------------
(* Generic helpers.                                                        *)

List0(s) == [i \in 0..(Len(s) - 1) |-> s[i + 1]]

Size(l) == Cardinality(DOMAIN l)

SeqRange(s) == {s[k] : k \in 1..Len(s)}

Max2(a, b) == IF a >= b THEN a ELSE b

MinOf(S) == CHOOSE y \in S : \A z \in S : y <= z

MaxOf(S) == IF S = {} THEN 0 ELSE CHOOSE y \in S : \A z \in S : y >= z

RECURSIVE Gcd(_, _)
Gcd(a, b) == IF b = 0 THEN a ELSE Gcd(b, a % b)

RECURSIVE SumSeq(_)
SumSeq(s) == IF s = <<>> THEN 0 ELSE Head(s) + SumSeq(Tail(s))

RECURSIVE GcdSeq(_)
GcdSeq(s) == IF s = <<>> THEN 0 ELSE Gcd(Head(s), GcdSeq(Tail(s)))

-----------------------------------------------------------------------------
(* Costs: float('inf') or the fraction w + r/d, 0 <= r < d, gcd(r, d) = 1. *)

Inf == [inf |-> TRUE, w |-> 0, r |-> 0, d |-> 1]

Frac(num, den) ==
    LET r0 == num % den
        g  == Gcd(r0, den)
    IN  [inf |-> FALSE, w |-> num \div den, r |-> r0 \div g, d |-> den \div g]

CostLT(a, b) ==
    IF a.inf THEN FALSE
    ELSE IF b.inf THEN TRUE
    ELSE IF a.w # b.w THEN a.w < b.w
    ELSE a.r * b.d < b.r * a.d

CostGE(a, b) == ~CostLT(a, b)

CostLE(a, b) == ~CostLT(b, a)

-----------------------------------------------------------------------------
(* Program constants.                                                      *)

\* self.alpha = self.beta = self.gamma = 1/3: each weight is 1/WeightDen.
WeightDen == 3

\* task_complexity_factor = task.computing_cycles / 1e6; with
\* energy_coefficient in units of 1e-9 the trailing factor 1e9 is absorbed.
ComplexityDen == 1000000

\* Delays and energies are counted in units of 1/TimeDen, of a second and of
\* the energy unit: a delay of 4 stands for 0.4 seconds.
TimeDen == 10

\* server_idx None of a local decision, and next_task_idx None.
None == -1

\* self.best_solution = None
NoSolution == [none |-> TRUE, decisions |-> <<>>]

Solution(decisions) == [none |-> FALSE, decisions |-> decisions]

\* self.cache_hits = self.offloaded_tasks = self.local_tasks = 0
NoStats == [cache_hits |-> 0, offloaded_tasks |-> 0, local_tasks |-> 0]

\* No cache lookup has been made.
NoLookup ==
    [made |-> FALSE, task_features |-> <<>>, candidates |-> <<>>,
     similar_items |-> <<>>, hit |-> FALSE]

\* get_expert_data has not been called.
NoExpert == [called |-> FALSE, returned |-> FALSE, expert_data |-> <<>>]

\* No cost function has been applied.
NoCosts ==
    [solver |-> [made |-> FALSE, offload |-> <<0, 0>>, reuse |-> <<0, 0>>],
     heuristic |-> [made |-> FALSE, offload |-> <<<<0, 1>>, <<0, 1>>>>,
                    reuse |-> <<<<0, 1>>, <<0, 1>>>>]]

\* The value of result while execute has not returned.
NoResult ==
    [total_delay |-> 0, total_energy |-> 0,
     load_balance |-> [scaled |-> <<0, 1>>, vc2 |-> <<0, 1>>]]

-----------------------------------------------------------------------------
(* Cost model (stateless formulas).                                        *)

\* (execution_time, total_energy) of running task on device.
CalculateLocalExecution(device, task) ==
    LET execution_time ==
            (TimeDen * task.computing_cycles) \div device.cpu_freq
        computing_energy ==
            device.energy_coefficient * (device.cpu_freq * device.cpu_freq)
                * execution_time
        total_energy ==
            (computing_energy * task.computing_cycles) \div ComplexityDen
    IN  <<execution_time, total_energy>>

\* (total_delay, total_energy) of offloading task from device to server.
CalculateOffloadExecution(device, server, task) ==
    LET transmission_time ==
            (TimeDen * task.input_data_size) \div device.data_rate
        execution_time ==
            (TimeDen * task.computing_cycles) \div server.cpu_freq
        result_transmission_time ==
            (TimeDen * task.output_data_size) \div device.data_rate
        total_delay ==
            transmission_time + execution_time + result_transmission_time
        transmission_energy == device.tx_power * transmission_time
        result_transmission_energy ==
            device.tx_power * result_transmission_time
    IN  <<total_delay, transmission_energy + result_transmission_energy>>

\* (total_delay, total_energy) of reusing a cached result.
CalculateCacheReuse(device, server, task) ==
    LET result_transmission_time ==
            (TimeDen * task.output_data_size) \div device.data_rate
    IN  <<result_transmission_time, device.tx_power * result_transmission_time>>

GetCacheKey(task) ==
    <<task.id, task.computing_cycles, task.input_data_size>>

\* self.cache[server.id]: set to {} by __init__ and never written afterwards.
SolverCache(server) == {}

CheckCacheReuse(task, server) == GetCacheKey(task) \in SolverCache(server)

-----------------------------------------------------------------------------
(* Exact rationals <<numerator, denominator>>: denominator > 0, lowest     *)
(* terms.  They stand for the floats of the evaluator and of the cache.    *)

Abs(x) == IF x < 0 THEN 0 - x ELSE x

Rat(n, d) ==
    LET sn == IF d < 0 THEN 0 - n ELSE n
        sd == Abs(d)
        g  == Gcd(Abs(sn), sd)
    IN  <<sn \div g, sd \div g>>

RatAdd(a, b) == Rat(a[1] * b[2] + b[1] * a[2], a[2] * b[2])

RatSub(a, b) == Rat(a[1] * b[2] - b[1] * a[2], a[2] * b[2])

RatMul(a, b) == Rat(a[1] * b[1], a[2] * b[2])

RatDiv(a, b) == Rat(a[1] * b[2], a[2] * b[1])

RatLT(a, b) == a[1] * b[2] < b[1] * a[2]

RatLE(a, b) == a[1] * b[2] <= b[1] * a[2]

RECURSIVE RatSum(_)
RatSum(s) == IF s = <<>> THEN <<0, 1>> ELSE RatAdd(Head(s), RatSum(Tail(s)))

-----------------------------------------------------------------------------
(* Load-balance evaluator (utils/evaluator.py).                            *)

\* A balance value: the real number scaled / (1 + sqrt(vc2)), where scaled
\* and vc2 are rationals.  vc2 is the square of the variation coefficient,
\* whose square root (variance ** 0.5) is in general irrational; the value is
\* kept in this form and compared exactly (BalanceAtMost100, BalanceIs100).
Balance(scaled, vc2) == [scaled |-> scaled, vc2 |-> vc2]

\* return 0.0 and return 100.0
BalanceZero == Balance(<<0, 1>>, <<0, 1>>)

BalanceFull == Balance(<<100, 1>>, <<0, 1>>)

\* The square of variation_coefficient = std_dev / mean_load over the active
\* (nonzero) normalized loads; distribution_decay = 1 / (1 + its root).
VariationCoefficientSquared(normalized_loads, sum_loads, active_servers) ==
    LET mean_load == RatDiv(sum_loads, <<active_servers, 1>>)
        deviation(k) == RatSub(normalized_loads[k], mean_load)
        variance ==
            RatDiv(RatSum([k \in 1..Len(normalized_loads) |->
                             IF normalized_loads[k][1] > 0
                             THEN RatMul(deviation(k), deviation(k))
                             ELSE <<0, 1>>]),
                   <<active_servers, 1>>)
    IN  RatDiv(variance, RatMul(mean_load, mean_load))

\* A rescaling that measures the Jain index from its maximum 1.
JainShortfallPercent(jain_index, min_jain) ==
    RatMul(RatDiv(RatSub(jain_index, <<1, 1>>), RatSub(<<1, 1>>, min_jain)),
           <<100, 1>>)

\* No rescaling: the Jain index as a percentage.
JainPercentUnscaled(jain_index, min_jain) == RatMul(jain_index, <<100, 1>>)

\* load_balance = ((jain_index - min_jain) / (1 - min_jain)) * 100
JainPercent(jain_index, min_jain) ==
    RatMul(RatDiv(RatSub(jain_index, min_jain), RatSub(<<1, 1>>, min_jain)),
           <<100, 1>>)

\* A ratio that counts one server more than the pool has.
ServerRatioOfLargerPool(active_servers, total_servers) ==
    Rat(active_servers, total_servers + 1)

\* server_ratio_decay = active_servers / total_servers
ServerRatioDecay(active_servers, total_servers) ==
    Rat(active_servers, total_servers)

\* Evaluator.calculate_load_balance on the sequence of the servers'
\* current_load values.
EvaluatorLoadBalance(loads) ==
    LET n == Len(loads)
    IN  IF n = 0 \/ \A k \in 1..n : loads[k] = 0 THEN BalanceZero
        ELSE
          LET max_load == MaxOf(SeqRange(loads))
              normalized_loads == [k \in 1..n |-> Rat(loads[k], max_load)]
              sum_loads == RatSum(normalized_loads)
              sum_squared_loads ==
                  RatSum([k \in 1..n |->
                            RatMul(normalized_loads[k], normalized_loads[k])])
              jain_index ==
                  RatDiv(RatMul(sum_loads, sum_loads),
                         RatMul(<<n, 1>>, sum_squared_loads))
              min_jain == Rat(1, n)
          IN  IF RatLE(<<1, 1>>, min_jain) THEN BalanceFull
              ELSE
                LET load_balance == JainPercent(jain_index, min_jain)
                    active_servers ==
                        Cardinality({k \in 1..n : loads[k] > 0})
                    server_ratio_decay == ServerRatioDecay(active_servers, n)
                    vc2 == IF active_servers > 1 /\ sum_loads[1] > 0
                           THEN VariationCoefficientSquared(
                                    normalized_loads, sum_loads, active_servers)
                           ELSE <<0, 1>>
                IN  Balance(RatMul(load_balance, server_ratio_decay), vc2)

\* The divisors of the divisions calculate_load_balance performs on the path
\* it takes for these loads.
EvaluatorDivisors(loads) ==
    LET n == Len(loads)
    IN  IF n = 0 \/ \A k \in 1..n : loads[k] = 0 THEN {}
        ELSE
          LET max_load == MaxOf(SeqRange(loads))
              normalized_loads == [k \in 1..n |-> Rat(loads[k], max_load)]
              sum_loads == RatSum(normalized_loads)
              sum_squared_loads ==
                  RatSum([k \in 1..n |->
                            RatMul(normalized_loads[k], normalized_loads[k])])
              min_jain == Rat(1, n)
              active_servers == Cardinality({k \in 1..n : loads[k] > 0})
              mean_load == RatDiv(sum_loads, <<active_servers, 1>>)
          IN  {<<max_load, 1>>, RatMul(<<n, 1>>, sum_squared_loads), <<n, 1>>}
                \cup (IF RatLE(<<1, 1>>, min_jain) THEN {}
                      ELSE {RatSub(<<1, 1>>, min_jain)}
                             \cup (IF active_servers > 1 /\ sum_loads[1] > 0
                                   THEN {<<active_servers, 1>>, mean_load}
                                   ELSE {}))

-----------------------------------------------------------------------------
(* Search states.                                                          *)

\* loads of a search state: the device loads, then the server loads.
StateLoads(state) ==
    [k \in 1..Size(devices) |-> state.device_loads[devices[k - 1].id]]
      \o [k \in 1..Size(servers) |-> state.server_loads[servers[k - 1].id]]

\* A variance that is 0 whatever the loads.
NoLoadVariance(state) == <<0, 1>>

\* _calculate_load_variance, as the fraction <<numerator, denominator>>.
\* The code divides every load by max_load before it forms the Jain index
\* (sum x)^2 / (n * sum x^2); any common divisor cancels in that quotient,
\* and the model divides by the loads' gcd instead, which keeps integers.
CalculateLoadVariance(state) ==
    LET loads == StateLoads(state)
        n == Len(loads)
    IN  IF n = 0 \/ SumSeq(loads) = 0 THEN <<0, 1>>
        ELSE IF n = 1 THEN <<0, 1>>
        ELSE
          LET g == GcdSeq(loads)
              normalized_loads == [k \in 1..n |-> loads[k] \div g]
              numerator == SumSeq(normalized_loads) * SumSeq(normalized_loads)
              denominator ==
                  n * SumSeq([k \in 1..n |->
                                normalized_loads[k] * normalized_loads[k]])
              \* balance = (jfi - 1/n) / (1 - 1/n) * 100
              balanceNum == 100 * (numerator * n - denominator)
              balanceDen == denominator * (n - 1)
          IN  <<100 * balanceDen - balanceNum, balanceDen>>

\* _calculate_cost: alpha*total_delay + beta*total_energy + gamma*variance
CalculateCost(state) ==
    LET load_variance == CalculateLoadVariance(state)
    IN  Frac((state.total_delay + state.total_energy) * load_variance[2]
               + TimeDen * load_variance[1],
             WeightDen * TimeDen * load_variance[2])

\* The delays (k = 1) or energies (k = 2) of every way to run a task: on each
\* device, and offloaded from each device to each server.
ExecutionOptions(task, k) ==
    {CalculateLocalExecution(devices[d], task)[k] : d \in DOMAIN devices}
      \cup {CalculateOffloadExecution(devices[d], servers[s], task)[k] :
              d \in DOMAIN devices, s \in DOMAIN servers}

BoundDelay(state, estimated_delay) == state.total_delay + estimated_delay

\* _calculate_bound.  With no device min_delay stays float('inf').
CalculateBound(state) ==
    LET remaining_tasks == DOMAIN tasks \ SeqRange(state.allocated)
    IN  IF remaining_tasks # {} /\ DOMAIN devices = {} THEN Inf
        ELSE
          LET estimated_delay ==
                  MaxOf({MinOf(ExecutionOptions(tasks[t], 1)) :
                           t \in remaining_tasks})
              \* summed per task: equal minima of two tasks both count
              estimated_energy ==
                  SumSeq([k \in 1..Size(tasks) |->
                            IF (k - 1) \in remaining_tasks
                            THEN MinOf(ExecutionOptions(tasks[k - 1], 2))
                            ELSE 0])
              estimated_balance == 0
          IN  Frac(BoundDelay(state, estimated_delay)
                     + (state.total_energy + estimated_energy)
                     + TimeDen * estimated_balance,
                   WeightDen * TimeDen)

\* _create_new_state
CreateNewState(state, task_idx, device_idx, server_idx, reuse) ==
    LET device == devices[device_idx]
        task == tasks[task_idx]
        de == IF server_idx = None
              THEN CalculateLocalExecution(device, task)
              ELSE IF reuse
              THEN CalculateCacheReuse(device, servers[server_idx], task)
              ELSE CalculateOffloadExecution(device, servers[server_idx], task)
    IN  [allocated |-> Append(state.allocated, task_idx),
         device_loads |->
             IF server_idx = None
             THEN [state.device_loads EXCEPT
                     ![device.id] = @ + task.computing_cycles]
             ELSE state.device_loads,
         server_loads |->
             IF server_idx # None /\ ~reuse
             THEN [state.server_loads EXCEPT
                     ![servers[server_idx].id] = @ + task.computing_cycles]
             ELSE state.server_loads,
         total_delay |-> Max2(state.total_delay, de[1]),
         total_energy |-> state.total_energy + de[2],
         decisions |->
             [i \in DOMAIN state.decisions \cup {task_idx} |->
                IF i = task_idx THEN <<device_idx, server_idx>>
                ELSE state.decisions[i]]]

-----------------------------------------------------------------------------
(* Dependency graph and topological order.                                 *)

\* _build_dependencies: dependencies[i] lists every j with
\* tasks[i].id in tasks[j].dependencies.
BuildDependencies(ts) ==
    [i \in DOMAIN ts |->
       {j \in DOMAIN ts : ts[i].id \in SeqRange(ts[j].dependencies)}]

\* graph[j]: one entry i per occurrence of tasks[j].id in tasks[i].dependencies,
\* appended in the order of the loops over i and over dep_id.
RECURSIVE EdgesFrom(_, _, _, _)
EdgesFrom(ts, j, i, k) ==
    IF i >= Size(ts) THEN <<>>
    ELSE IF k > Len(ts[i].dependencies) THEN EdgesFrom(ts, j, i + 1, 1)
    ELSE (IF ts[i].dependencies[k] = ts[j].id THEN <<i>> ELSE <<>>)
           \o EdgesFrom(ts, j, i, k + 1)

\* The edges turned round: every task to the tasks it depends on.
SortGraphReversed(ts) ==
    [i \in DOMAIN ts |->
       [k \in 1..Cardinality({j \in DOMAIN ts :
                                ts[j].id \in SeqRange(ts[i].dependencies)}) |->
          CHOOSE j \in DOMAIN ts :
              /\ ts[j].id \in SeqRange(ts[i].dependencies)
              /\ Cardinality({q \in 0..(j - 1) :
                    ts[q].id \in SeqRange(ts[i].dependencies)}) = k - 1]]

SortGraph(ts) == [j \in DOMAIN ts |-> EdgesFrom(ts, j, 0, 1)]

\* An in-degree that counts every dependency id, matched or not.
SortInDegreeAllIds(ts) == [i \in DOMAIN ts |-> Len(ts[i].dependencies)]

\* in_degree[i]: one per (dep_id, j) with tasks[j].id = dep_id.
SortInDegree(ts) ==
    [i \in DOMAIN ts |->
       SumSeq([k \in 1..Len(ts[i].dependencies) |->
                 Cardinality({j \in DOMAIN ts :
                                ts[j].id = ts[i].dependencies[k]})])]

\* queue = [i for i, degree in in_degree.items() if degree == 0]
RECURSIVE ZeroDegree(_, _)
ZeroDegree(in_degree, i) ==
    IF i >= Size(in_degree) THEN <<>>
    ELSE (IF in_degree[i] = 0 THEN <<i>> ELSE <<>>)
           \o ZeroDegree(in_degree, i + 1)

\* for neighbor in graph[curr]: in_degree[neighbor] -= 1; append at zero.
RECURSIVE Relax(_, _, _)
Relax(neighbors, in_degree, queue) ==
    IF neighbors = <<>> THEN [in_degree |-> in_degree, queue |-> queue]
    ELSE LET neighbor == Head(neighbors)
             lowered == [in_degree EXCEPT ![neighbor] = @ - 1]
         IN  Relax(Tail(neighbors), lowered,
                   IF lowered[neighbor] = 0 THEN Append(queue, neighbor)
                   ELSE queue)

\* while queue: curr = queue.pop(0); result.append(curr); ...
RECURSIVE KahnLoop(_, _, _, _)
KahnLoop(graph, in_degree, queue, sorted) ==
    IF queue = <<>> THEN sorted
    ELSE LET curr == Head(queue)
             next == Relax(graph[curr], in_degree, Tail(queue))
         IN  KahnLoop(graph, next.in_degree, next.queue, Append(sorted, curr))

\* The remainder left in batch index order, task ids disregarded.
RECURSIVE SortByIndex(_, _)
SortByIndex(ts, remaining) ==
    IF remaining = {} THEN <<>>
    ELSE <<MinOf(remaining)>> \o SortByIndex(ts, remaining \ {MinOf(remaining)})

\* remaining.sort(key=lambda i: self.tasks[i].id): stable, from index order.
RECURSIVE SortById(_, _)
SortById(ts, remaining) ==
    IF remaining = {} THEN <<>>
    ELSE LET first == CHOOSE i \in remaining : \A j \in remaining :
                          \/ ts[i].id < ts[j].id
                          \/ (ts[i].id = ts[j].id /\ i <= j)
         IN  <<first>> \o SortById(ts, remaining \ {first})

CycleFallback(ts, sorted) ==
    IF Len(sorted) < Size(ts)
    THEN sorted \o SortById(ts, DOMAIN ts \ SeqRange(sorted))
    ELSE sorted

\* BranchAndBoundAlgorithm._topological_sort
TopologicalSort(ts) ==
    LET in_degree == SortInDegree(ts)
    IN  CycleFallback(ts, KahnLoop(SortGraph(ts), in_degree,
                                   ZeroDegree(in_degree, 0), <<>>))

-----------------------------------------------------------------------------
(* BranchAndBoundAlgorithm.execute                                         *)

Dependencies == BuildDependencies(tasks)

\* The dependency check of the task selection loop.
DepsSatisfied(state, task_idx) ==
    \A dep_idx \in Dependencies[task_idx] :
        dep_idx \in SeqRange(state.allocated)

\* A selection that never looks at the allocated list.
UnallocatedIgnored(state, task_idx) == task_idx \in DOMAIN tasks

Unallocated(state, task_idx) == task_idx \notin SeqRange(state.allocated)

\* next_task_idx: the first task of task_order that is not allocated and
\* whose dependency check passes; None when there is none.
NextTaskIdx(state, order) ==
    LET ready == {k \in 1..Len(order) :
                    /\ Unallocated(state, order[k])
                    /\ DepsSatisfied(state, order[k])}
    IN  IF ready = {} THEN None ELSE order[MinOf(ready)]

InitialState ==
    [allocated |-> <<>>,
     device_loads |-> [id \in {devices[d].id : d \in DOMAIN devices} |->
                         device_load[CHOOSE d \in DOMAIN devices :
                                       devices[d].id = id]],
     server_loads |-> [id \in {servers[s].id : s \in DOMAIN servers} |->
                         server_load[CHOOSE s \in DOMAIN servers :
                                       servers[s].id = id]],
     total_delay |-> 0,
     total_energy |-> 0,
     decisions |-> <<>>]

\* heapq.heappop: the least (bound, id, state) tuple.
HeapMin(queue) ==
    CHOOSE e \in queue : \A f \in queue :
        \/ CostLT(e.bound, f.bound)
        \/ (e.bound = f.bound /\ e.id <= f.id)

\* The k-th assignment the branching loops try (k from 0): for each device,
\* local execution first and then every server.
Site(k) ==
    LET per == Size(servers) + 1
    IN  <<k \div per, IF k % per = 0 THEN None ELSE (k % per) - 1>>

\* A pop check that discards every state.
PopDiscardsAll(bound, best) == TRUE

\* if bound >= self.best_cost: continue
PopDiscards(bound, best) == pruning /\ CostGE(bound, best)

\* A push check that lets every child through.
PushAlways(bound, best) == TRUE

\* if local_bound < self.best_cost: heappush(...)
PushAllowed(bound, best) == pruning => CostLT(bound, best)

\* The branching loops from assignment k on: each child is created, bounded
\* and pushed with the next state id unless the push check filters it.
RECURSIVE Branch(_, _, _, _, _)
Branch(state, next_task_idx, k, queue, counter) ==
    IF k >= Size(devices) * (Size(servers) + 1)
    THEN [queue |-> queue, counter |-> counter]
    ELSE LET site == Site(k)
             reuse == IF site[2] = None THEN FALSE
                      ELSE CheckCacheReuse(tasks[next_task_idx],
                                           servers[site[2]])
             child == CreateNewState(state, next_task_idx, site[1], site[2],
                                     reuse)
             child_bound == CalculateBound(child)
         IN  IF PushAllowed(child_bound, best_cost)
             THEN Branch(state, next_task_idx, k + 1,
                         queue \cup {[bound |-> child_bound, id |-> counter,
                                      state |-> child]},
                         counter + 1)
             ELSE Branch(state, next_task_idx, k + 1, queue, counter)

\* execute, up to the search loop.
Execute ==
    /\ UNCHANGED heuristicVars
    /\ UNCHANGED <<expert, costs>>
    /\ pc = "constructed"
    /\ initial_state' = InitialState
    /\ priority_queue' = {[bound |-> Frac(0, 1), id |-> 0,
                           state |-> InitialState]}
    /\ state_counter' = 1
    /\ task_order' = TopologicalSort(tasks)
    /\ pc' = "searching"
    /\ UNCHANGED <<tasks, devices, servers, device_load, server_load, pruning,
                   runs, best_cost, best_solution, result, execution_order,
                   executed>>

Searching == pc = "searching" /\ priority_queue # {}

\* One iteration of the search loop, on a popped state cut by its bound.
PopPruned ==
    /\ UNCHANGED heuristicVars
    /\ UNCHANGED <<expert, costs>>
    /\ Searching
    /\ LET e == HeapMin(priority_queue)
       IN  /\ PopDiscards(e.bound, best_cost)
           /\ priority_queue' = priority_queue \ {e}
    /\ UNCHANGED <<tasks, devices, servers, device_load, server_load, pc,
                   pruning, runs, initial_state, state_counter, task_order,
                   best_cost, best_solution, result, execution_order, executed>>

\* One iteration on a complete state: the best solution is replaced when the
\* state's cost is lower.
PopComplete ==
    /\ UNCHANGED heuristicVars
    /\ UNCHANGED <<expert, costs>>
    /\ Searching
    /\ LET e == HeapMin(priority_queue)
           final_cost == CalculateCost(e.state)
       IN  /\ ~PopDiscards(e.bound, best_cost)
           /\ Len(e.state.allocated) = Size(tasks)
           /\ priority_queue' = priority_queue \ {e}
           /\ IF CostLT(final_cost, best_cost)
              THEN /\ best_cost' = final_cost
                   /\ best_solution' = Solution(e.state.decisions)
              ELSE UNCHANGED <<best_cost, best_solution>>
    /\ UNCHANGED <<tasks, devices, servers, device_load, server_load, pc,
                   pruning, runs, initial_state, state_counter, task_order,
                   result, execution_order, executed>>

\* One iteration on an incomplete state for which no task can be selected.
PopNoTask ==
    /\ UNCHANGED heuristicVars
    /\ UNCHANGED <<expert, costs>>
    /\ Searching
    /\ LET e == HeapMin(priority_queue)
       IN  /\ ~PopDiscards(e.bound, best_cost)
           /\ Len(e.state.allocated) # Size(tasks)
           /\ NextTaskIdx(e.state, task_order) = None
           /\ priority_queue' = priority_queue \ {e}
    /\ UNCHANGED <<tasks, devices, servers, device_load, server_load, pc,
                   pruning, runs, initial_state, state_counter, task_order,
                   best_cost, best_solution, result, execution_order, executed>>

\* One iteration that branches on the selected task.
PopBranch ==
    /\ UNCHANGED heuristicVars
    /\ UNCHANGED <<expert, costs>>
    /\ Searching
    /\ LET e == HeapMin(priority_queue)
           next_task_idx == NextTaskIdx(e.state, task_order)
       IN  /\ ~PopDiscards(e.bound, best_cost)
           /\ Len(e.state.allocated) # Size(tasks)
           /\ next_task_idx # None
           /\ LET pushed == Branch(e.state, next_task_idx, 0,
                                   priority_queue \ {e}, state_counter)
              IN  /\ priority_queue' = pushed.queue
                  /\ state_counter' = pushed.counter
    /\ UNCHANGED <<tasks, devices, servers, device_load, server_load, pc,
                   pruning, runs, initial_state, task_order, best_cost,
                   best_solution, result, execution_order, executed>>

\* An application that adds to the load the resource carries, without the
\* reset.
AppliedOnPriorLoad(decisions, local, idx) ==
    (IF local THEN device_load[idx] ELSE server_load[idx])
      + SumSeq([k \in 1..Size(tasks) |->
                  IF /\ (k - 1) \in DOMAIN decisions
                     /\ IF local
                        THEN decisions[k - 1] = <<idx, None>>
                        ELSE decisions[k - 1][2] = idx
                  THEN tasks[k - 1].computing_cycles
                  ELSE 0])

\* The cycles the decision map runs on a resource: locally on device d
\* (server_idx None) or offloaded to server s.
AppliedLoad(decisions, local, idx) ==
    SumSeq([k \in 1..Size(tasks) |->
              IF /\ (k - 1) \in DOMAIN decisions
                 /\ IF local
                    THEN decisions[k - 1] = <<idx, None>>
                    ELSE decisions[k - 1][2] = idx
              THEN tasks[k - 1].computing_cycles
              ELSE 0])

\* The totals execute recomputes from the best solution: the delay is the
\* maximum, the energy the sum; an offloaded task is costed as a real offload.
FinalTotals(decisions) ==
    LET cost(t) ==
            IF decisions[t][2] = None
            THEN CalculateLocalExecution(devices[decisions[t][1]], tasks[t])
            ELSE CalculateOffloadExecution(devices[decisions[t][1]],
                                           servers[decisions[t][2]], tasks[t])
    IN  [total_delay |-> MaxOf({cost(t)[1] : t \in DOMAIN decisions}),
         total_energy |-> SumSeq([k \in 1..Size(tasks) |->
                                    IF (k - 1) \in DOMAIN decisions
                                    THEN cost(k - 1)[2] ELSE 0])]

\* "if self.best_solution": None and the empty map are both false.
Truthy(solution) == ~solution.none /\ DOMAIN solution.decisions # {}

\* calculate_load_balance: the evaluator on the servers' current loads.
CalculateLoadBalance(load) ==
    EvaluatorLoadBalance([k \in 1..Size(servers) |-> load[k - 1]])

\* The end of execute with a solution: _apply_solution resets every load and
\* adds the cycles of each task to its resource; the totals are returned with
\* the load balance of the servers.  An empty decision map is not applied.
ReturnResult ==
    /\ UNCHANGED heuristicVars
    /\ UNCHANGED <<expert, costs>>
    /\ pc = "searching"
    /\ priority_queue = {}
    /\ ~best_solution.none
    /\ IF Truthy(best_solution)
       THEN /\ device_load' = [d \in DOMAIN devices |->
                                 AppliedLoad(best_solution.decisions, TRUE, d)]
            /\ server_load' = [s \in DOMAIN servers |->
                                 AppliedLoad(best_solution.decisions, FALSE, s)]
       ELSE UNCHANGED <<device_load, server_load>>
    /\ result' = [total_delay |-> FinalTotals(best_solution.decisions).total_delay,
                  total_energy |-> FinalTotals(best_solution.decisions).total_energy,
                  load_balance |-> CalculateLoadBalance(server_load')]
    /\ pc' = "returned"
    /\ UNCHANGED <<tasks, devices, servers, pruning, runs, initial_state,
                   priority_queue, state_counter, task_order, best_cost,
                   best_solution, execution_order, executed>>

\* The end of execute without a solution: self.best_solution is None and
\* self.best_solution.items() raises AttributeError.
RaiseNoSolution ==
    /\ UNCHANGED heuristicVars
    /\ UNCHANGED <<expert, costs>>
    /\ pc = "searching"
    /\ priority_queue = {}
    /\ best_solution.none
    /\ pc' = "raised"
    /\ UNCHANGED <<tasks, devices, servers, device_load, server_load, pruning,
                   runs, initial_state, priority_queue, state_counter,
                   task_order, best_cost, best_solution, result,
                   execution_order, executed>>

\* generate_expert_strategies: the next batch gets a fresh solver on the same
\* Device and Server objects.  The batch is one equal to the previous batch,
\* or an empty batch.
NextBatch ==
    /\ UNCHANGED heuristicVars
    /\ UNCHANGED <<expert, costs>>
    /\ pc = "returned"
    /\ runs < MaxRuns
    /\ runs' = runs + 1
    /\ tasks' \in {tasks, <<>>}
    /\ best_cost' = Inf
    /\ best_solution' = NoSolution
    /\ pc' = "constructed"
    /\ UNCHANGED <<devices, servers, device_load, server_load, pruning,
                   initial_state, priority_queue, state_counter, task_order,
                   result, execution_order, executed>>

-----------------------------------------------------------------------------
(* Inputs: devices, servers and batches.                                   *)

Device(id, cpu_freq, energy_coefficient, tx_power, data_rate) ==
    [id |-> id, cpu_freq |-> cpu_freq,
     energy_coefficient |-> energy_coefficient, tx_power |-> tx_power,
     data_rate |-> data_rate]

Server(id, cpu_freq) == [id |-> id, cpu_freq |-> cpu_freq]

Task(id, computing_cycles, input_data_size, output_data_size, dependencies) ==
    [id |-> id, computing_cycles |-> computing_cycles,
     input_data_size |-> input_data_size,
     output_data_size |-> output_data_size, dependencies |-> dependencies]

\* (computing_cycles, input_data_size, output_data_size) of the tasks drawn.
TaskKinds == {<<200, 0, 0>>, <<400, 0, 0>>, <<400, 20, 20>>}

\* The resource pools: two devices with two servers, one device with one
\* server, one device alone, and servers without any device.
FullPool ==
    [devices |-> List0(<<Device(0, 1, 100, 1, 1), Device(1, 2, 100, 1, 2)>>),
     servers |-> List0(<<Server(0, 4), Server(1, 2)>>)]

SmallPool ==
    [devices |-> List0(<<Device(0, 1, 100, 1, 1)>>),
     servers |-> List0(<<Server(0, 4)>>)]

DeviceOnlyPool ==
    [devices |-> List0(<<Device(0, 1, 100, 1, 1)>>), servers |-> <<>>]

NoDevicePool ==
    [devices |-> <<>>, servers |-> List0(<<Server(0, 4)>>)]

Pools == {FullPool, SmallPool, DeviceOnlyPool, NoDevicePool}

\* The dependency lists of a task in a batch of n tasks with ids 0..n-1: none,
\* or one id, which may be the task's own or the id n of no task of the batch.
DepLists(n) == {<<>>} \cup {<<id>> : id \in 0..n}

NoDeps(deps) == \A i \in DOMAIN deps : deps[i] = <<>>

Init ==
    /\ \E n \in 0..MaxTasks :
         \E kinds \in [0..(n - 1) -> TaskKinds] :
           \E deps \in [0..(n - 1) -> DepLists(n)] :
             \E pool \in Pools :
               /\ NoDeps(deps) \/ (pool = SmallPool /\ NoDeps(deps) = FALSE)
               /\ tasks = [i \in 0..(n - 1) |->
                             Task(i, kinds[i][1], kinds[i][2], kinds[i][3],
                                  deps[i])]
               /\ devices = pool.devices
               /\ servers = pool.servers
    /\ device_load = [d \in DOMAIN devices |-> 0]
    /\ server_load = [s \in DOMAIN servers |-> 0]
    /\ pruning \in BOOLEAN
    /\ pc = "constructed"
    /\ runs = 1
    /\ initial_state = InitialState
    /\ priority_queue = {}
    /\ state_counter = 0
    /\ task_order = <<>>
    /\ best_cost = Inf
    /\ best_solution = NoSolution
    /\ result = NoResult
    /\ execution_order = <<>>
    /\ executed = <<>>
    /\ cache = <<>>
    /\ now = 0
    /\ stats = NoStats
    /\ lookup = NoLookup
    /\ expert = NoExpert
    /\ costs = NoCosts

Next ==
    \/ Execute
    \/ PopPruned
    \/ PopComplete
    \/ PopNoTask
    \/ PopBranch
    \/ ReturnResult
    \/ RaiseNoSolution
    \/ NextBatch

Spec == Init /\ [][Next]_vars

\* The search loop "while priority_queue" keeps iterating: an iteration that
\* can be taken is taken.
SearchLoop ==
    \/ PopPruned
    \/ PopComplete
    \/ PopNoTask
    \/ PopBranch

\* Weak fairness of the loop, WF_vars(SearchLoop), written out: an iteration
\* is possible exactly when the loop condition Searching holds, since the four
\* cases of an iteration cover every popped state and each removes it.
LoopFairness == []<>(~Searching) \/ []<><<SearchLoop>>_vars

LiveSpec == Spec /\ LoopFairness

-----------------------------------------------------------------------------
(* The topological orderer on its own, and the heuristic path's use of it. *)

\* GNNILPCR._topological_sort: the same algorithm as the solver's.
HeuristicTopologicalSort(ts) ==
    LET in_degree == SortInDegree(ts)
    IN  CycleFallback(ts, KahnLoop(SortGraph(ts), in_degree,
                                   ZeroDegree(in_degree, 0), <<>>))

\* Dependency lists over the ids 0..n-1 of a batch and the id n of no task:
\* none, one id, or two ids of the batch (possibly the same id twice).  The
\* order of the ids within a list has no effect on graph or in_degree.
SortDepLists(n) ==
    {<<>>} \cup {<<a>> : a \in 0..n}
           \cup {<<a, b>> : a \in 0..(n - 1), b \in 0..(n - 1)}

NonDecreasing(s) == \A k \in 1..(Len(s) - 1) : s[k] <= s[k + 1]

\* Task ids are unique; they ascend or descend along the batch.
SortIds(n) == {[i \in 0..(n - 1) |-> i], [i \in 0..(n - 1) |-> n - 1 - i]}

SortInit ==
    /\ \E n \in 0..MaxSortTasks :
         \E ids \in SortIds(n) :
           \E deps \in [0..(n - 1) -> {l \in SortDepLists(n) :
                                         NonDecreasing(l)}] :
             tasks = [i \in 0..(n - 1) |-> Task(ids[i], 200, 0, 0, deps[i])]
    /\ devices = <<>>
    /\ servers = <<>>
    /\ device_load = <<>>
    /\ server_load = <<>>
    /\ pruning = TRUE
    /\ pc = "batch"
    /\ runs = 1
    /\ initial_state = InitialState
    /\ priority_queue = {}
    /\ state_counter = 0
    /\ task_order = <<>>
    /\ best_cost = Inf
    /\ best_solution = NoSolution
    /\ result = NoResult
    /\ execution_order = <<>>
    /\ executed = <<>>
    /\ cache = <<>>
    /\ now = 0
    /\ stats = NoStats
    /\ lookup = NoLookup
    /\ expert = NoExpert
    /\ costs = NoCosts

\* task_order = self._topological_sort() of the solver.
SolverSort ==
    /\ UNCHANGED heuristicVars
    /\ pc = "batch"
    /\ task_order' = TopologicalSort(tasks)
    /\ pc' = "ordered"
    /\ UNCHANGED <<tasks, devices, servers, execution_order, executed>>
    /\ UNCHANGED solverVars

\* execution_order = self._topological_sort() of the heuristic path.
HeuristicSort ==
    /\ UNCHANGED heuristicVars
    /\ pc = "batch"
    /\ execution_order' = HeuristicTopologicalSort(tasks)
    /\ pc' = "executing"
    /\ UNCHANGED <<tasks, devices, servers, task_order, executed>>
    /\ UNCHANGED solverVars

\* for idx in execution_order: the loop takes the next index.
HeuristicExecuteNext ==
    /\ UNCHANGED heuristicVars
    /\ pc = "executing"
    /\ Len(executed) < Len(execution_order)
    /\ executed' = Append(executed, execution_order[Len(executed) + 1])
    /\ UNCHANGED <<tasks, devices, servers, pc, task_order, execution_order>>
    /\ UNCHANGED solverVars

SortNext ==
    \/ SolverSort
    \/ HeuristicSort
    \/ HeuristicExecuteNext

SortSpec == SortInit /\ [][SortNext]_vars

-----------------------------------------------------------------------------
(* Batches whose dependency lists name ids of no task of the batch.        *)

\* Dependency lists of up to two ids over the ids 0..n-1 of a batch and the
\* ids n and n+1 of no task: an id of no task may stand alone, before or
\* after an id of the batch, or twice.
DanglingDepLists(n) ==
    {<<>>} \cup {<<a>> : a \in 0..(n + 1)}
           \cup {<<a, b>> : a \in 0..(n + 1), b \in 0..(n + 1)}

DanglingInit ==
    /\ \E n \in 0..MaxTasks :
         \E ids \in SortIds(n) :
           \E deps \in [0..(n - 1) -> DanglingDepLists(n)] :
             tasks = [i \in 0..(n - 1) |-> Task(ids[i], 200, 0, 0, deps[i])]
    /\ devices = <<>>
    /\ servers = <<>>
    /\ device_load = <<>>
    /\ server_load = <<>>
    /\ pruning = TRUE
    /\ pc = "batch"
    /\ runs = 1
    /\ initial_state = InitialState
    /\ priority_queue = {}
    /\ state_counter = 0
    /\ task_order = <<>>
    /\ best_cost = Inf
    /\ best_solution = NoSolution
    /\ result = NoResult
    /\ execution_order = <<>>
    /\ executed = <<>>
    /\ cache = <<>>
    /\ now = 0
    /\ stats = NoStats
    /\ lookup = NoLookup
    /\ expert = NoExpert
    /\ costs = NoCosts

DanglingNext ==
    \/ SolverSort
    \/ HeuristicSort

DanglingSpec == DanglingInit /\ [][DanglingNext]_vars

-----------------------------------------------------------------------------
(* Computation-reuse cache of the heuristic path (gnn_il_pcr.py).          *)
(*                                                                         *)
(* The clock counts units of 200 * ln 2 seconds, so that the decay         *)
(* np.exp(-0.01 * time_diff) is exactly 1 / 4^time_diff.  Feature vectors  *)
(* are vectors of exact rationals, and the tasks are chosen so that the    *)
(* norm of every feature vector is rational.                               *)

\* Bounds: the clock; 'max_size' (100 in the code); the number of hash
\* functions, the rows of 'projections' (10 in the code).
MaxClock == 1
MaxSize == 1
HashCount == 1

\* Program constants of the feature extraction and of the k-NN search.
CyclesNorm == 1000000000
SizeNorm == 1000000
DependencyNorm == 10
IdNorm == 1000
FeatureDim == 10
KNeighbors == 3

\* The hash threshold 0.5, the acceptance threshold 0.2, the score gain 0.1.
HashThreshold == <<1, 2>>
ReuseThreshold == <<1, 5>>
ScoreGain == <<1, 10>>

\* _extract_task_features
ExtractTaskFeatures(task) ==
    <<Rat(task.computing_cycles, CyclesNorm),
      Rat(task.input_data_size, SizeNorm),
      Rat(task.output_data_size, SizeNorm),
      Rat(Len(task.dependencies), DependencyNorm),
      Rat(task.id, IdNorm),
      <<1, 2>>, <<1, 2>>, <<1, 2>>, <<1, 2>>, <<1, 2>>>>

\* np.dot of two vectors
RECURSIVE DotFrom(_, _, _)
DotFrom(u, v, k) ==
    IF k > Len(u) THEN <<0, 1>>
    ELSE RatAdd(RatMul(u[k], v[k]), DotFrom(u, v, k + 1))

Dot(u, v) == DotFrom(u, v, 1)

\* _compute_lsh_hash: one bit per row of projections.
ComputeLshHash(server_cache, features) ==
    LET projections == server_cache.lsh_index.projections
        threshold == server_cache.lsh_index.threshold
    IN  [h \in 1..Len(projections) |->
           IF RatLT(threshold, Dot(projections[h], features)) THEN 1 ELSE 0]

\* A search that finds no bucket.
ALshSearchNothing(server_cache, task_features) == <<>>

\* _a_lsh_search: buckets.get(hash_str, [])
ALshSearch(server_cache, task_features) ==
    LET hash_str == ComputeLshHash(server_cache, task_features)
        buckets == server_cache.lsh_index.buckets
    IN  IF hash_str \in DOMAIN buckets THEN buckets[hash_str] ELSE <<>>

\* The position of cache_key in items (the dict, in insertion order); 0 when
\* it is not a key of items.
ItemIndex(items, cache_key) ==
    LET at == {k \in 1..Len(items) : items[k].key = cache_key}
    IN  IF at = {} THEN 0 ELSE MinOf(at)

\* The square root of a rational whose numerator and denominator are squares.
ISqrt(n) == CHOOSE r \in 0..n : r * r = n

RatSqrt(q) == <<ISqrt(q[1]), ISqrt(q[2])>>

\* scipy.spatial.distance.cosine: 1 - u.v / (||u|| ||v||)
CosineDistance(u, v) ==
    RatSub(<<1, 1>>,
           RatDiv(Dot(u, v), RatSqrt(RatMul(Dot(u, u), Dot(v, v)))))

RECURSIVE Pow4(_)
Pow4(k) == IF k = 0 THEN 1 ELSE 4 * Pow4(k - 1)

\* np.exp(-0.01 * time_diff)
TimeDecay(time_diff) == Rat(1, Pow4(time_diff))

\* weighted_dist = dist * (1 - time_weight * cache_item['score'])
WeightedDistance(task_features, cache_item, current_time) ==
    LET dist == CosineDistance(task_features, cache_item.features)
        time_weight == TimeDecay(current_time - cache_item.timestamp)
    IN  RatMul(dist, RatSub(<<1, 1>>, RatMul(time_weight, cache_item.score)))

\* The (cache_key, weighted_dist) pairs of the candidates that are keys of
\* items, in the order of the candidates.
RECURSIVE Distances(_, _, _, _)
Distances(items, task_features, candidates, current_time) ==
    IF candidates = <<>> THEN <<>>
    ELSE LET cache_key == Head(candidates)
             k == ItemIndex(items, cache_key)
         IN  (IF k = 0 THEN <<>>
              ELSE <<[key |-> cache_key,
                      dist |-> WeightedDistance(task_features, items[k],
                                                current_time)]>>)
               \o Distances(items, task_features, Tail(candidates),
                            current_time)

\* s without its k-th element.
RemoveAt(s, k) == SubSeq(s, 1, k - 1) \o SubSeq(s, k + 1, Len(s))

\* distances.sort(key=lambda x: x[1]): stable.
RECURSIVE SortByDistance(_)
SortByDistance(distances) ==
    IF distances = <<>> THEN <<>>
    ELSE LET first == MinOf({k \in 1..Len(distances) :
                               \A q \in 1..Len(distances) :
                                   RatLE(distances[k].dist, distances[q].dist)})
         IN  <<distances[first]>> \o SortByDistance(RemoveAt(distances, first))

\* _w_knn_search: the k nearest of the candidates, nearest first.
WKnnSearch(server_cache, task_features, candidates, current_time) ==
    IF candidates = <<>> THEN <<>>
    ELSE LET sorted == SortByDistance(Distances(server_cache.items,
                                                task_features, candidates,
                                                current_time))
         IN  SubSeq(sorted, 1,
                    IF Len(sorted) < KNeighbors THEN Len(sorted) ELSE KNeighbors)

\* An acceptance that never looks at the distance.
ReuseAnyNeighbor(similar_items) == similar_items # <<>>

\* if similar_items and similar_items[0][1] < 0.2
ReuseAccepted(similar_items) ==
    similar_items # <<>> /\ RatLT(similar_items[1].dist, ReuseThreshold)

\* The cache lookup of execute for a task offloaded to the server of this
\* cache: features, A-LSH candidates, W-KNN result and the decision.
CacheLookup(server_cache, task, current_time) ==
    LET task_features == ExtractTaskFeatures(task)
        candidates == ALshSearch(server_cache, task_features)
        similar_items == WKnnSearch(server_cache, task_features, candidates,
                                    current_time)
    IN  [made |-> TRUE, task_features |-> task_features,
         candidates |-> candidates, similar_items |-> similar_items,
         hit |-> ReuseAccepted(similar_items)]

\* GNNILPCR._get_cache_key
HeuristicCacheKey(task) ==
    <<task.id, task.computing_cycles, task.input_data_size,
      task.output_data_size>>

\* An update whose gain is not capped.
UpdateCacheScoreUncapped(server_cache, cache_key, current_time) ==
    LET k == ItemIndex(server_cache.items, cache_key)
    IN  IF k = 0 THEN server_cache
        ELSE
          LET item == server_cache.items[k]
              time_factor == TimeDecay(current_time - item.timestamp)
          IN  [server_cache EXCEPT
                 !.items[k] =
                     [item EXCEPT
                        !.score = RatAdd(item.score,
                                         RatMul(ScoreGain, time_factor)),
                        !.timestamp = current_time]]

\* _update_cache_score: the score gains 0.1 * decay, capped at 1.0, and the
\* timestamp is refreshed.
UpdateCacheScore(server_cache, cache_key, current_time) ==
    LET k == ItemIndex(server_cache.items, cache_key)
    IN  IF k = 0 THEN server_cache
        ELSE
          LET item == server_cache.items[k]
              time_factor == TimeDecay(current_time - item.timestamp)
              raised == RatAdd(item.score, RatMul(ScoreGain, time_factor))
              new_score == IF RatLT(raised, <<1, 1>>) THEN raised ELSE <<1, 1>>
          IN  [server_cache EXCEPT
                 !.items[k] = [item EXCEPT !.score = new_score,
                                           !.timestamp = current_time]]

\* s without the first occurrence of x (list.remove).
RemoveFirst(s, x) ==
    LET at == {k \in 1..Len(s) : s[k] = x}
    IN  IF at = {} THEN s ELSE RemoveAt(s, MinOf(at))

\* The keys in the reverse of the dict's insertion order.
RECURSIVE SortNewestFirst(_, _)
SortNewestFirst(items, remaining) ==
    IF remaining = {} THEN <<>>
    ELSE <<items[MaxOf(remaining)].key>>
           \o SortNewestFirst(items, remaining \ {MaxOf(remaining)})

\* The keys in the dict's insertion order, timestamps disregarded.
RECURSIVE SortByInsertion(_, _)
SortByInsertion(items, remaining) ==
    IF remaining = {} THEN <<>>
    ELSE <<items[MinOf(remaining)].key>>
           \o SortByInsertion(items, remaining \ {MinOf(remaining)})

\* sorted(items.keys(), key=lambda k: items[k]['timestamp']): stable, from
\* the insertion order of the dict; the positions in items are returned.
RECURSIVE SortByTimestamp(_, _)
SortByTimestamp(items, remaining) ==
    IF remaining = {} THEN <<>>
    ELSE LET first == CHOOSE k \in remaining : \A q \in remaining :
                          \/ items[k].timestamp < items[q].timestamp
                          \/ (items[k].timestamp = items[q].timestamp /\ k <= q)
         IN  <<items[first].key>>
               \o SortByTimestamp(items, remaining \ {first})

\* The loop over keys_to_evict: the key leaves the bucket of its features'
\* hash (first occurrence) and then the items.
RECURSIVE EvictKeys(_, _)
EvictKeys(server_cache, keys_to_evict) ==
    IF keys_to_evict = <<>> THEN server_cache
    ELSE
      LET key == Head(keys_to_evict)
          k == ItemIndex(server_cache.items, key)
          hash_str == ComputeLshHash(server_cache,
                                     server_cache.items[k].features)
          buckets == server_cache.lsh_index.buckets
          unindexed ==
              IF hash_str \in DOMAIN buckets
              THEN [buckets EXCEPT ![hash_str] = RemoveFirst(@, key)]
              ELSE buckets
      IN  EvictKeys([server_cache EXCEPT
                       !.lsh_index.buckets = unindexed,
                       !.items = RemoveAt(@, k)],
                    Tail(keys_to_evict))

\* A cache that never evicts.
EvictCacheNever(server_cache) == server_cache

\* An eviction that empties a store found above max_size.
EvictCacheEntirely(server_cache) ==
    LET items == server_cache.items
    IN  IF Len(items) > server_cache.max_size
        THEN EvictKeys(server_cache, SortByTimestamp(items, 1..Len(items)))
        ELSE server_cache

\* _evict_cache_if_needed
EvictCacheIfNeeded(server_cache) ==
    LET items == server_cache.items
        max_size == server_cache.max_size
    IN  IF Len(items) > max_size
        THEN EvictKeys(server_cache,
                       SubSeq(SortByTimestamp(items, 1..Len(items)), 1,
                              Len(items) - max_size))
        ELSE server_cache

\* _cache_result: the item is stored under its key (an existing key keeps its
\* place in the dict), the key is appended to the bucket of the features'
\* hash, and the cache is evicted down to max_size.
CacheResult(server_cache, task, current_time) ==
    LET cache_key == HeuristicCacheKey(task)
        task_features == ExtractTaskFeatures(task)
        cache_item == [key |-> cache_key, features |-> task_features,
                       score |-> <<1, 1>>, timestamp |-> current_time]
        k == ItemIndex(server_cache.items, cache_key)
        hash_str == ComputeLshHash(server_cache, task_features)
        buckets == server_cache.lsh_index.buckets
        indexed == [h \in DOMAIN buckets \cup {hash_str} |->
                      IF h = hash_str
                      THEN Append(IF h \in DOMAIN buckets THEN buckets[h]
                                  ELSE <<>>, cache_key)
                      ELSE buckets[h]]
    IN  EvictCacheIfNeeded(
            [server_cache EXCEPT
               !.items = IF k = 0 THEN Append(@, cache_item)
                         ELSE [@ EXCEPT ![k] = cache_item],
               !.lsh_index.buckets = indexed])

-----------------------------------------------------------------------------
(* The execution loop of the heuristic path with its caches.               *)

\* (id, computing_cycles) of the tasks drawn; data sizes are 0 and there are
\* no dependencies.  The feature vectors all have norm 3/2; their cosine
\* distances are 4/45 (first-second, second-third) and 8/25 (first-third).
CacheTaskKinds ==
    {<<0, 1000000000>>, <<600, 800000000>>, <<960, 280000000>>}

\* A batch holds each kind at most once: task ids are unique.
CacheBatches ==
    {b \in UNION {[1..n -> CacheTaskKinds] : n \in 0..Cardinality(CacheTaskKinds)} :
        \A j, k \in DOMAIN b : b[j] = b[k] => j = k}

\* Rows drawn for 'projections' (np.random.randn in the code): one that reads
\* the cycles feature, one that reads the id feature, and the zero row.
UnitRow(k) == [j \in 1..FeatureDim |-> IF j = k THEN <<1, 1>> ELSE <<0, 1>>]

ProjectionRows == {UnitRow(1), UnitRow(5), UnitRow(0)}

\* The cache of one server after __init__ and _init_lsh_index.
InitCache(projections) ==
    [items |-> <<>>, max_size |-> MaxSize,
     lsh_index |-> [projections |-> projections, buckets |-> <<>>,
                    threshold |-> HashThreshold]]

CacheInit ==
    /\ \E b \in CacheBatches :
         tasks = [i \in 0..(Len(b) - 1) |->
                    Task(b[i + 1][1], b[i + 1][2], 0, 0, <<>>)]
    /\ devices = SmallPool.devices
    /\ servers \in {SmallPool.servers, FullPool.servers}
    /\ device_load = [d \in DOMAIN devices |-> 0]
    /\ server_load = [s \in DOMAIN servers |-> 0]
    /\ pruning = TRUE
    /\ pc = "batch"
    /\ runs = 1
    /\ initial_state = InitialState
    /\ priority_queue = {}
    /\ state_counter = 0
    /\ task_order = <<>>
    /\ best_cost = Inf
    /\ best_solution = NoSolution
    /\ result = NoResult
    /\ execution_order = <<>>
    /\ executed = <<>>
    /\ \E projections \in [1..HashCount -> ProjectionRows] :
         cache = [id \in {servers[s].id : s \in DOMAIN servers} |->
                    InitCache(projections)]
    /\ now = 0
    /\ stats = NoStats
    /\ lookup = NoLookup
    /\ expert = NoExpert
    /\ costs = NoCosts

\* The loop of execute is at a task: idx is the next of execution_order.
AtTask == pc = "executing" /\ Len(executed) < Len(execution_order)

NextIdx == execution_order[Len(executed) + 1]

\* time.time() advances while the loop runs.
Tick ==
    /\ AtTask
    /\ now < MaxClock
    /\ now' = now + 1
    /\ UNCHANGED <<tasks, devices, servers, pc, task_order, execution_order,
                   executed, cache, stats, lookup>>
    /\ UNCHANGED solverVars

\* offload == 0, or a server index that is not valid: _execute_locally on the
\* device found (devices[0], no device lists the task).
ExecuteLocally ==
    /\ AtTask
    /\ device_load' = [device_load EXCEPT
                         ![0] = @ + tasks[NextIdx].computing_cycles]
    /\ stats' = [stats EXCEPT !.local_tasks = @ + 1]
    /\ executed' = Append(executed, NextIdx)
    /\ UNCHANGED <<tasks, devices, servers, pc, task_order, execution_order,
                   cache, now, lookup, server_load, pruning, runs,
                   initial_state, priority_queue, state_counter, best_cost,
                   best_solution, result, expert,
                   costs>>

\* offload == 1 to servers[server_idx], and the lookup accepts a cached item:
\* _use_cached_result (no load is added), _update_cache_score.
OffloadReuse(server_idx) ==
    LET server == servers[server_idx]
        found == CacheLookup(cache[server.id], tasks[NextIdx], now)
    IN  /\ AtTask
        /\ found.hit
        /\ lookup' = found
        /\ cache' = [cache EXCEPT
                       ![server.id] = UpdateCacheScore(@,
                                          found.similar_items[1].key, now)]
        /\ stats' = [stats EXCEPT !.cache_hits = @ + 1]
        /\ executed' = Append(executed, NextIdx)
        /\ UNCHANGED <<tasks, devices, servers, pc, task_order,
                       execution_order, now>>
        /\ UNCHANGED solverVars

\* offload == 1 to servers[server_idx], and the lookup accepts nothing:
\* _execute_offload, _cache_result.
OffloadExecute(server_idx) ==
    LET server == servers[server_idx]
        found == CacheLookup(cache[server.id], tasks[NextIdx], now)
    IN  /\ AtTask
        /\ ~found.hit
        /\ lookup' = found
        /\ server_load' = [server_load EXCEPT
                             ![server_idx] = @ + tasks[NextIdx].computing_cycles]
        /\ cache' = [cache EXCEPT
                       ![server.id] = CacheResult(@, tasks[NextIdx], now)]
        /\ stats' = [stats EXCEPT !.offloaded_tasks = @ + 1]
        /\ executed' = Append(executed, NextIdx)
        /\ UNCHANGED <<tasks, devices, servers, pc, task_order,
                       execution_order, now, device_load, pruning, runs,
                       initial_state, priority_queue, state_counter,
                       best_cost, best_solution, result, expert,
                   costs>>

CacheNext ==
    \/ HeuristicSort
    \/ Tick
    \/ ExecuteLocally
    \/ \E server_idx \in DOMAIN servers : OffloadReuse(server_idx)
    \/ \E server_idx \in DOMAIN servers : OffloadExecute(server_idx)

CacheSpec == CacheInit /\ [][CacheNext]_vars

-----------------------------------------------------------------------------
(* The cache of one server with room for more than one entry, over a       *)
(* batch long enough for an entry to be hit and then to meet an eviction.  *)

\* (id, computing_cycles, input_data_size, output_data_size) of the tasks
\* drawn; no dependencies.  The feature vectors all have norm 3/2.  The second
\* is at cosine distance 0.832/2.25 from the first, the third at 0.072/2.25
\* from the first and at 0.52/2.25 from the second, and the fourth alone has
\* input data.
EvictionTaskKinds ==
    <<<<0, 600000000, 0, 800000>>, <<960, 280000000, 0, 0>>,
      <<360, 480000000, 0, 800000>>, <<600, 480000000, 640000, 0>>>>

\* The batch: the first tasks of the sequence, in any number.
EvictionBatches ==
    {SubSeq(EvictionTaskKinds, 1, n) : n \in 0..Len(EvictionTaskKinds)}

\* Rows drawn for 'projections': one that reads the input size feature, and
\* the zero row.
EvictionProjectionRows == {UnitRow(2), UnitRow(0)}

EvictionInit ==
    /\ \E b \in EvictionBatches :
         tasks = [i \in 0..(Len(b) - 1) |->
                    Task(b[i + 1][1], b[i + 1][2], b[i + 1][3], b[i + 1][4],
                         <<>>)]
    /\ devices = SmallPool.devices
    /\ servers = SmallPool.servers
    /\ device_load = [d \in DOMAIN devices |-> 0]
    /\ server_load = [s \in DOMAIN servers |-> 0]
    /\ pruning = TRUE
    /\ pc = "batch"
    /\ runs = 1
    /\ initial_state = InitialState
    /\ priority_queue = {}
    /\ state_counter = 0
    /\ task_order = <<>>
    /\ best_cost = Inf
    /\ best_solution = NoSolution
    /\ result = NoResult
    /\ execution_order = <<>>
    /\ executed = <<>>
    /\ \E projections \in [1..HashCount -> EvictionProjectionRows] :
         cache = [id \in {servers[s].id : s \in DOMAIN servers} |->
                    [InitCache(projections) EXCEPT !.max_size = MaxSize + 1]]
    /\ now = 0
    /\ stats = NoStats
    /\ lookup = NoLookup
    /\ expert = NoExpert
    /\ costs = NoCosts

\* time.time() advances while the loop runs, here to MaxClock + 1.
LongTick ==
    /\ AtTask
    /\ now < MaxClock + 1
    /\ now' = now + 1
    /\ UNCHANGED <<tasks, devices, servers, pc, task_order, execution_order,
                   executed, cache, stats, lookup>>
    /\ UNCHANGED solverVars

EvictionNext ==
    \/ HeuristicSort
    \/ LongTick
    \/ ExecuteLocally
    \/ \E server_idx \in DOMAIN servers : OffloadReuse(server_idx)
    \/ \E server_idx \in DOMAIN servers : OffloadExecute(server_idx)

EvictionSpec == EvictionInit /\ [][EvictionNext]_vars

-----------------------------------------------------------------------------
(* The cache of one server over batches in which a cache key comes back:   *)
(* _get_cache_key leaves the dependencies out, so two tasks of one id,     *)
(* cycles and data sizes share their key and differ in their features.     *)

\* Eight ids that no task of the batch carries.
ManyDependencies == <<1, 2, 3, 4, 5, 6, 7, 8>>

\* (id, computing_cycles, input_data_size, output_data_size, dependencies) of
\* the tasks drawn.  The first two share their cache key; their feature
\* vectors have norms 3/2 and 17/10 and differ in the dependency feature
\* (0 and 0.8).  The third has another key and is at cosine distance
\* 0.9216/2.25 from the first.
ReinsertTaskKinds ==
    {<<960, 280000000, 0, 0, <<>>>>,
     <<960, 280000000, 0, 0, ManyDependencies>>,
     <<0, 280000000, 0, 960000, <<>>>>}

\* The batch: any sequence of the kinds, up to MaxTasks + 1 tasks.
ReinsertBatches ==
    UNION {[1..n -> ReinsertTaskKinds] : n \in 0..(MaxTasks + 1)}

\* Rows drawn for 'projections': one that reads the dependency feature, and
\* the zero row.
ReinsertProjectionRows == {UnitRow(4), UnitRow(0)}

ReinsertInit ==
    /\ \E b \in ReinsertBatches :
         tasks = [i \in 0..(Len(b) - 1) |->
                    Task(b[i + 1][1], b[i + 1][2], b[i + 1][3], b[i + 1][4],
                         b[i + 1][5])]
    /\ devices = SmallPool.devices
    /\ servers = SmallPool.servers
    /\ device_load = [d \in DOMAIN devices |-> 0]
    /\ server_load = [s \in DOMAIN servers |-> 0]
    /\ pruning = TRUE
    /\ pc = "batch"
    /\ runs = 1
    /\ initial_state = InitialState
    /\ priority_queue = {}
    /\ state_counter = 0
    /\ task_order = <<>>
    /\ best_cost = Inf
    /\ best_solution = NoSolution
    /\ result = NoResult
    /\ execution_order = <<>>
    /\ executed = <<>>
    /\ \E projections \in [1..HashCount -> ReinsertProjectionRows] :
         cache = [id \in {servers[s].id : s \in DOMAIN servers} |->
                    InitCache(projections)]
    /\ now = 0
    /\ stats = NoStats
    /\ lookup = NoLookup
    /\ expert = NoExpert
    /\ costs = NoCosts

ReinsertNext ==
    \/ HeuristicSort
    \/ Tick
    \/ ExecuteLocally
    \/ \E server_idx \in DOMAIN servers : OffloadReuse(server_idx)
    \/ \E server_idx \in DOMAIN servers : OffloadExecute(server_idx)

ReinsertSpec == ReinsertInit /\ [][ReinsertNext]_vars

-----------------------------------------------------------------------------
(* The cost functions of the solver and of the heuristic path on one       *)
(* device, one server and one task.                                        *)
(*                                                                         *)
(* Cycles and frequencies are in units of 1e9, data sizes, data rates and  *)
(* bandwidths in units of 1e6 (bytes, bytes per second), tx_power in       *)
(* tenths of a watt and energy coefficients in units of 1e-27.  The        *)
(* heuristic path's delays are rationals in seconds and its energies       *)
(* rationals in the code's unit; the solver's pairs are in tenths of a     *)
(* second and in a unit of 1e7 of the code's.                              *)

PowerDen == 10

\* The clamp limits 1e6 and 1e-6 = 1 / 1e6 of the energy.
ClampLimit == 1000000

\* A server with the fields the heuristic path reads.
EdgeServer(id, cpu_freq, energy_coefficient, bandwidth) ==
    [id |-> id, cpu_freq |-> cpu_freq,
     energy_coefficient |-> energy_coefficient, bandwidth |-> bandwidth]

\* network_latency = 0.02
NetworkLatency == <<1, 50>>

\* if total_energy < 1e-6: 1e-6 elif total_energy > 1e6: 1e6; the tests are
\* written with quotients, which stay within the integers of the model.
ClampEnergy(total_energy) ==
    IF total_energy[1] <= (total_energy[2] - 1) \div ClampLimit
    THEN <<1, ClampLimit>>
    ELSE IF total_energy[2] <= (total_energy[1] - 1) \div ClampLimit
         THEN <<ClampLimit, 1>>
         ELSE total_energy

\* _execute_offload: (total_time, total_energy); the load it adds to the
\* server is in OffloadExecute.  computing_energy is held in units of 1e-9,
\* so its factor 0.7 * 1e6 is 7/10000.
ExecuteOffloadCost(device, server, task) ==
    LET transmission_time ==
            RatAdd(Rat(task.input_data_size, server.bandwidth), NetworkLatency)
        execution_time == Rat(task.computing_cycles, server.cpu_freq)
        total_time == RatAdd(transmission_time, execution_time)
        transmission_energy ==
            RatMul(Rat(device.tx_power, PowerDen), transmission_time)
        computing_energy ==
            RatMul(<<server.energy_coefficient
                       * (server.cpu_freq * server.cpu_freq), 1>>,
                   execution_time)
        total_energy ==
            RatAdd(RatMul(transmission_energy, <<500000, 1>>),
                   RatMul(computing_energy, <<7, 10000>>))
    IN  <<total_time, ClampEnergy(total_energy)>>

\* _use_cached_result: (total_delay, total_energy)
UseCachedResultCost(device, server, task) ==
    LET result_transmission_time ==
            Rat(task.output_data_size, device.data_rate)
        result_transmission_energy ==
            RatMul(Rat(device.tx_power, PowerDen), result_transmission_time)
        total_energy == RatMul(result_transmission_energy, <<300000, 1>>)
    IN  <<result_transmission_time, ClampEnergy(total_energy)>>

\* Devices of 1e9 Hz with tx_power 0.1 or 0.5 W and data rates of 5e6 or
\* 10e6 bytes per second.
CostDevices ==
    {Device(0, 1, 1, tx_power, data_rate) :
        tx_power \in {1, 5}, data_rate \in {5, 10}}

\* Servers of 5e9 or 10e9 Hz with bandwidths of 50e6 or 100e6.
CostServers ==
    {EdgeServer(0, cpu_freq, energy_coefficient, bandwidth) :
        cpu_freq \in {5, 10}, energy_coefficient \in {1, 2},
        bandwidth \in {50, 100}}

\* Tasks of 1e9 or 5e9 cycles with up to 10e6 bytes of input and up to 3e6
\* bytes of output.
CostTasks ==
    {Task(0, computing_cycles, input_data_size, output_data_size, <<>>) :
        computing_cycles \in {1, 5}, input_data_size \in {0, 1, 10},
        output_data_size \in {0, 1, 3}}

CostInit ==
    /\ \E task \in CostTasks : tasks = List0(<<task>>)
    /\ \E device \in CostDevices : devices = List0(<<device>>)
    /\ \E server \in CostServers : servers = List0(<<server>>)
    /\ device_load = [d \in DOMAIN devices |-> 0]
    /\ server_load = [s \in DOMAIN servers |-> 0]
    /\ pruning = TRUE
    /\ pc = "costs"
    /\ runs = 1
    /\ initial_state = InitialState
    /\ priority_queue = {}
    /\ state_counter = 0
    /\ task_order = <<>>
    /\ best_cost = Inf
    /\ best_solution = NoSolution
    /\ result = NoResult
    /\ execution_order = <<>>
    /\ executed = <<>>
    /\ cache = <<>>
    /\ now = 0
    /\ stats = NoStats
    /\ lookup = NoLookup
    /\ expert = NoExpert
    /\ costs = NoCosts

\* _calculate_offload_execution and _calculate_cache_reuse of the solver on
\* the device, the server and the task.
SolverCosts ==
    /\ pc = "costs"
    /\ ~costs.solver.made
    /\ costs' = [costs EXCEPT
                   !.solver =
                       [made |-> TRUE,
                        offload |-> CalculateOffloadExecution(
                                        devices[0], servers[0], tasks[0]),
                        reuse |-> CalculateCacheReuse(
                                      devices[0], servers[0], tasks[0])]]
    /\ UNCHANGED <<tasks, devices, servers, device_load, server_load, pc,
                   pruning, runs, initial_state, priority_queue, state_counter,
                   task_order, best_cost, best_solution, result,
                   execution_order, executed, expert>>
    /\ UNCHANGED heuristicVars

\* _execute_offload and _use_cached_result of the heuristic path on the
\* device, the server and the task.
HeuristicCosts ==
    /\ pc = "costs"
    /\ ~costs.heuristic.made
    /\ costs' = [costs EXCEPT
                   !.heuristic =
                       [made |-> TRUE,
                        offload |-> ExecuteOffloadCost(
                                        devices[0], servers[0], tasks[0]),
                        reuse |-> UseCachedResultCost(
                                      devices[0], servers[0], tasks[0])]]
    /\ UNCHANGED <<tasks, devices, servers, device_load, server_load, pc,
                   pruning, runs, initial_state, priority_queue, state_counter,
                   task_order, best_cost, best_solution, result,
                   execution_order, executed, expert>>
    /\ UNCHANGED heuristicVars

CostNext == SolverCosts \/ HeuristicCosts

CostSpec == CostInit /\ [][CostNext]_vars

-----------------------------------------------------------------------------
(* The load-balance evaluator on its own.                                  *)

\* Bounds: the servers of a pool and the load of a server.
MaxPool == 3
MaxLoad == 3

EvalInit ==
    /\ \E n \in 0..MaxPool :
         /\ servers = [i \in 0..(n - 1) |-> Server(i, 4)]
         /\ server_load \in [0..(n - 1) -> 0..MaxLoad]
    /\ tasks = <<>>
    /\ devices = <<>>
    /\ device_load = <<>>
    /\ pruning = TRUE
    /\ pc = "pool"
    /\ runs = 1
    /\ initial_state = InitialState
    /\ priority_queue = {}
    /\ state_counter = 0
    /\ task_order = <<>>
    /\ best_cost = Inf
    /\ best_solution = NoSolution
    /\ result = NoResult
    /\ execution_order = <<>>
    /\ executed = <<>>
    /\ cache = <<>>
    /\ now = 0
    /\ stats = NoStats
    /\ lookup = NoLookup
    /\ expert = NoExpert
    /\ costs = NoCosts

\* balance = self.evaluator.calculate_load_balance(self.servers)
EvaluateLoadBalance ==
    /\ pc = "pool"
    /\ result' = [result EXCEPT
                    !.load_balance = CalculateLoadBalance(server_load)]
    /\ pc' = "evaluated"
    /\ UNCHANGED <<tasks, devices, servers, device_load, server_load, pruning,
                   runs, initial_state, priority_queue, state_counter,
                   task_order, best_cost, best_solution, execution_order,
                   executed, expert, costs>>
    /\ UNCHANGED heuristicVars

EvalNext == EvaluateLoadBalance

EvalSpec == EvalInit /\ [][EvalNext]_vars

-----------------------------------------------------------------------------
(* The solver on the scenario of three independent tasks, one device and   *)
(* two identical servers.                                                  *)
(*                                                                         *)
(* Cycles and frequencies are in units of 1e8 (cycles, Hz), which leaves   *)
(* every delay a multiple of 0.1 s, and energy_coefficient is in units of  *)
(* 1e-33, which absorbs the three factors 1e8 and the code's 1e9.          *)

\* Tasks of 1e9, 2e9 and 1.5e9 cycles, no data, no dependencies.
ScenarioTasks ==
    List0(<<Task(0, 10, 0, 0, <<>>), Task(1, 20, 0, 0, <<>>),
            Task(2, 15, 0, 0, <<>>)>>)

\* Two servers of 5e9 Hz.
ScenarioServers == List0(<<Server(0, 50), Server(1, 50)>>)

\* One device of 1e9 Hz; the scenario leaves open its energy coefficient (0,
\* 1e-29 or 5e-29 here), its transmit power (0.1 or 0.5 W) and its data rate
\* (5e6 or 20e6 bytes per second).
ScenarioDevices ==
    {List0(<<Device(0, 10, energy_coefficient, tx_power, data_rate)>>) :
        energy_coefficient \in {0, 10000, 50000},
        tx_power \in {100000000, 500000000},
        data_rate \in {5000000, 20000000}}

ScenarioInit ==
    /\ tasks = ScenarioTasks
    /\ devices \in ScenarioDevices
    /\ servers = ScenarioServers
    /\ device_load = [d \in DOMAIN devices |-> 0]
    /\ server_load = [s \in DOMAIN servers |-> 0]
    /\ pruning = TRUE
    /\ pc = "constructed"
    /\ runs = 1
    /\ initial_state = InitialState
    /\ priority_queue = {}
    /\ state_counter = 0
    /\ task_order = <<>>
    /\ best_cost = Inf
    /\ best_solution = NoSolution
    /\ result = NoResult
    /\ execution_order = <<>>
    /\ executed = <<>>
    /\ cache = <<>>
    /\ now = 0
    /\ stats = NoStats
    /\ lookup = NoLookup
    /\ expert = NoExpert
    /\ costs = NoCosts

ScenarioNext ==
    \/ Execute
    \/ PopPruned
    \/ PopComplete
    \/ PopBranch
    \/ ReturnResult

ScenarioSpec == ScenarioInit /\ [][ScenarioNext]_vars

-----------------------------------------------------------------------------
(* BranchAndBoundAlgorithm.get_expert_data                                 *)

\* The order of the items of a decision map: the order in which the tasks
\* were allocated.  The task selection looks at the allocated tasks only, so
\* every branch allocates the tasks in the same order.
RECURSIVE DecisionOrder(_)
DecisionOrder(allocated) ==
    LET next_task_idx == NextTaskIdx([allocated |-> allocated], task_order)
    IN  IF next_task_idx = None THEN allocated
        ELSE DecisionOrder(Append(allocated, next_task_idx))

\* A label that names the server by its position in the list.
ServerLabelIndex(server_idx) == server_idx

\* 'server_id': server.id
ServerLabelId(server_idx) == servers[server_idx].id

\* label of a decision: local execution, or offload to servers[server_idx].
ExpertLabel(server_idx) ==
    IF server_idx = None
    THEN [offload |-> 0, server_id |-> -1, resource_allocation |-> 0,
          bandwidth_allocation |-> 0]
    ELSE [offload |-> 1, server_id |-> ServerLabelId(server_idx),
          resource_allocation |-> 1, bandwidth_allocation |-> 1]

\* features of a decision
ExpertFeatures(task, device, current_load) ==
    [task_id |-> task.id,
     computing_cycles |-> task.computing_cycles,
     input_data_size |-> task.input_data_size,
     output_data_size |-> task.output_data_size,
     dependencies |-> task.dependencies,
     device_id |-> device.id,
     device_cpu_freq |-> device.cpu_freq,
     device_energy_coef |-> device.energy_coefficient,
     device_tx_power |-> device.tx_power,
     device_data_rate |-> device.data_rate,
     device_current_load |-> current_load]

\* The loop over self.best_solution.items(): one record per item.
ExpertData(decisions) ==
    LET items == SelectSeq(DecisionOrder(<<>>),
                           LAMBDA task_idx : task_idx \in DOMAIN decisions)
    IN  [k \in 1..Len(items) |->
           LET device_idx == decisions[items[k]][1]
               server_idx == decisions[items[k]][2]
           IN  [features |-> ExpertFeatures(tasks[items[k]],
                                            devices[device_idx],
                                            device_load[device_idx]),
                label |-> ExpertLabel(server_idx)]]

\* get_expert_data is called.  With a solution the records are returned at
\* once; with none (None or an empty map) it calls execute, which starts.
GetExpertData ==
    /\ pc \in {"constructed", "returned"}
    /\ ~expert.called
    /\ IF Truthy(best_solution)
       THEN /\ expert' = [called |-> TRUE, returned |-> TRUE,
                          expert_data |-> ExpertData(best_solution.decisions)]
            /\ UNCHANGED <<pc, initial_state, priority_queue, state_counter,
                           task_order>>
       ELSE /\ expert' = [expert EXCEPT !.called = TRUE]
            /\ initial_state' = InitialState
            /\ priority_queue' = {[bound |-> Frac(0, 1), id |-> 0,
                                   state |-> InitialState]}
            /\ state_counter' = 1
            /\ task_order' = TopologicalSort(tasks)
            /\ pc' = "searching"
    /\ UNCHANGED <<tasks, devices, servers, device_load, server_load, pruning,
                   runs, best_cost, best_solution, result, execution_order,
                   executed, costs>>
    /\ UNCHANGED heuristicVars

\* The execute that get_expert_data called has returned: the records are
\* built from the solution it left and returned.
GetExpertDataResume ==
    /\ pc = "returned"
    /\ expert.called
    /\ ~expert.returned
    /\ expert' = [expert EXCEPT
                    !.returned = TRUE,
                    !.expert_data = ExpertData(best_solution.decisions)]
    /\ UNCHANGED <<tasks, devices, servers, device_load, server_load, pc,
                   pruning, runs, initial_state, priority_queue, state_counter,
                   task_order, best_cost, best_solution, result,
                   execution_order, executed, costs>>
    /\ UNCHANGED heuristicVars

\* Pools whose device and server ids are not their positions in the lists.
ExpertPool ==
    [devices |-> List0(<<Device(3, 1, 100, 1, 1), Device(4, 2, 100, 1, 2)>>),
     servers |-> List0(<<Server(7, 4), Server(5, 2)>>)]

ExpertSmallPool ==
    [devices |-> List0(<<Device(3, 1, 100, 1, 1)>>),
     servers |-> List0(<<Server(7, 4)>>)]

\* Batches of independent tasks, and chains: every task but the first
\* depends on the task before it.
ExpertInit ==
    /\ \E n \in 0..MaxTasks :
         \E kinds \in [0..(n - 1) -> TaskKinds] :
           \E chained \in BOOLEAN :
             tasks = [i \in 0..(n - 1) |->
                        Task(i, kinds[i][1], kinds[i][2], kinds[i][3],
                             IF chained /\ i > 0 THEN <<i - 1>> ELSE <<>>)]
    /\ \E pool \in {ExpertPool, ExpertSmallPool} :
         /\ devices = pool.devices
         /\ servers = pool.servers
    /\ device_load = [d \in DOMAIN devices |-> 0]
    /\ server_load = [s \in DOMAIN servers |-> 0]
    /\ pruning \in BOOLEAN
    /\ pc = "constructed"
    /\ runs = 1
    /\ initial_state = InitialState
    /\ priority_queue = {}
    /\ state_counter = 0
    /\ task_order = <<>>
    /\ best_cost = Inf
    /\ best_solution = NoSolution
    /\ result = NoResult
    /\ execution_order = <<>>
    /\ executed = <<>>
    /\ cache = <<>>
    /\ now = 0
    /\ stats = NoStats
    /\ lookup = NoLookup
    /\ expert = NoExpert
    /\ costs = NoCosts

ExpertNext ==
    \/ Execute
    \/ GetExpertData
    \/ PopPruned
    \/ PopComplete
    \/ PopBranch
    \/ ReturnResult
    \/ GetExpertDataResume

ExpertSpec == ExpertInit /\ [][ExpertNext]_vars

-----------------------------------------------------------------------------
(* Notions the properties are stated in.                                   *)

\* The batch indices of the tasks whose id is in the dependencies of task t.
InBatchDeps(t) ==
    {d \in DOMAIN tasks : tasks[d].id \in SeqRange(tasks[t].dependencies)}

\* The least set that holds every task all of whose in-batch dependencies
\* it holds (deps[t] being the in-batch dependencies of t): the tasks that do
\* not depend, directly or through other tasks, on a task on a cycle.
RECURSIVE WellFounded(_, _)
WellFounded(R, deps) ==
    LET more == R \cup {t \in DOMAIN deps : deps[t] \subseteq R}
    IN  IF more = R THEN R ELSE WellFounded(more, deps)

\* The tasks Kahn's algorithm cannot resolve: those on a dependency cycle and
\* those that depend, directly or not, on a task on a cycle.
Unresolvable ==
    DOMAIN tasks \ WellFounded({}, [t \in DOMAIN tasks |-> InBatchDeps(t)])

\* The in-batch dependencies have no cycle.
Acyclic == Unresolvable = {}

\* In s every task present stands after each of its in-batch dependencies.
DepsFirst(s) ==
    \A k \in 1..Len(s) : \A d \in InBatchDeps(s[k]) :
        \E q \in 1..(k - 1) : s[q] = d

IsPermutation(s) ==
    Len(s) = Size(tasks) /\ SeqRange(s) = DOMAIN tasks

\* In s the resolvable tasks come first and the unresolvable ones follow in
\* ascending task-id order.
FallbackOrdered(s) ==
    LET unresolvable == Unresolvable
    IN  \A k \in 1..Len(s) : \A q \in 1..Len(s) :
          /\ (s[k] \notin unresolvable /\ s[q] \in unresolvable) => k < q
          /\ (s[k] \in unresolvable /\ s[q] \in unresolvable /\ k < q)
                => tasks[s[k]].id < tasks[s[q]].id

Finished == pc \in {"returned", "raised"}

ZeroLoads(loads) == \A id \in DOMAIN loads : loads[id] = 0

\* The least of a non-empty set of costs.
MinCost(S) == CHOOSE c \in S : \A o \in S : CostLE(c, o)

\* The number of assignments the branching tries for one task.
NumSites == Size(devices) * (Size(servers) + 1)

\* The least true cost among the complete states reachable from state by
\* branching without any pruning; infinity when there is none.
RECURSIVE BestCompletion(_)
BestCompletion(state) ==
    IF Len(state.allocated) = Size(tasks) THEN CalculateCost(state)
    ELSE LET next_task_idx == NextTaskIdx(state, task_order)
         IN  IF next_task_idx = None \/ NumSites = 0 THEN Inf
             ELSE MinCost({BestCompletion(
                              CreateNewState(state, next_task_idx, Site(k)[1],
                                             Site(k)[2], FALSE)) :
                            k \in 0..(NumSites - 1)})

\* The complete state of an assignment (task index -> site number), built
\* from zero loads in index order.
RECURSIVE Assign(_, _, _)
Assign(assignment, t, state) ==
    IF t >= Size(tasks) THEN state
    ELSE Assign(assignment, t + 1,
                CreateNewState(state, t, Site(assignment[t])[1],
                               Site(assignment[t])[2], FALSE))

ZeroLoadState ==
    [InitialState EXCEPT
       !.device_loads = [id \in DOMAIN InitialState.device_loads |-> 0],
       !.server_loads = [id \in DOMAIN InitialState.server_loads |-> 0]]

\* The minimum of the true cost over every assignment of every task to a
\* device and to local execution or one of the servers.
BruteForceMin ==
    MinCost({CalculateCost(Assign(a, 0, ZeroLoadState)) :
               a \in [DOMAIN tasks -> 0..(NumSites - 1)]})

-----------------------------------------------------------------------------
(* Properties.                                                             *)

\* C1: in every search state, each allocated task stands after every batch
\* task whose id is among its dependencies: a task is never scheduled before
\* one of its in-batch dependencies.
C1_DependenciesAllocatedFirst ==
    \A e \in priority_queue : DepsFirst(e.state.allocated)

\* C2: the bound of every search state the solver holds is at most the true
\* cost of every complete state reachable from it by further branching.
C2_BoundAdmissible ==
    \A e \in priority_queue : CostLE(e.bound, BestCompletion(e.state))

NoDependencies == \A t \in DOMAIN tasks : tasks[t].dependencies = <<>>

\* C3: for a batch without dependencies on 2 devices and 2 servers, all at
\* zero load, the best_cost execute ends with is the minimum of the true cost
\* over all complete assignments.
C3_SolverMatchesBruteForce ==
    (/\ Finished
     /\ pruning
     /\ runs = 1
     /\ NoDependencies
     /\ Size(devices) = 2
     /\ Size(servers) = 2)
        => best_cost = BruteForceMin

\* What the solver with both pruning checks disabled ends with: the least
\* cost over the whole branching tree of the invocation.
UnprunedBestCost == BestCompletion(initial_state)

\* The solver run with pruning disabled ends with UnprunedBestCost.
UnprunedEndsWithTreeMinimum ==
    (Finished /\ ~pruning) => best_cost = UnprunedBestCost

\* C4: on identical tasks, devices, servers and initial loads, the solver
\* with pruning enabled ends with the same best_cost as the solver with both
\* pruning checks disabled.
C4_PruningPreservesBestCost ==
    (Finished /\ pruning) => best_cost = UnprunedBestCost

\* C5: for a batch whose in-batch dependencies are acyclic, the order that
\* _topological_sort returns holds every task, each after all its in-batch
\* dependencies, and the heuristic path executes the tasks in that order.
C5_DependenciesSortedFirst ==
    /\ (pc = "ordered" /\ Acyclic) =>
          IsPermutation(task_order) /\ DepsFirst(task_order)
    /\ (pc = "executing" /\ Acyclic) =>
          /\ IsPermutation(execution_order)
          /\ DepsFirst(execution_order)
          /\ executed = SubSeq(execution_order, 1, Len(executed))
          /\ DepsFirst(executed)

\* An acyclic batch, executed to the end, in which a task depends on two
\* tasks and one of its dependencies stands later in the batch than it does.
C5_Witness ==
    /\ pc = "executing"
    /\ Acyclic
    /\ Size(tasks) >= 3
    /\ Len(executed) = Size(tasks)
    /\ \E t \in DOMAIN tasks :
          /\ Cardinality(InBatchDeps(t)) = 2
          /\ \E d \in InBatchDeps(t) : d > t

\* C6: for any dependency lists (cycles, self-dependencies and repeated ids
\* included) _topological_sort returns every batch index exactly once, with
\* the indices Kahn's algorithm cannot resolve after all resolved ones and in
\* ascending task-id order.
C6_TotalOrderWithIdFallback ==
    /\ pc = "ordered" =>
          IsPermutation(task_order) /\ FallbackOrdered(task_order)
    /\ pc = "executing" =>
          IsPermutation(execution_order) /\ FallbackOrdered(execution_order)

\* A sorted batch with a resolvable task and two unresolvable ones, whose
\* ids descend along the batch, one of them depending on itself through a
\* repeated id.
C6_Witness ==
    /\ pc = "ordered"
    /\ Size(tasks) = 3
    /\ Cardinality(Unresolvable) = 2
    /\ \E t \in Unresolvable : \E u \in Unresolvable :
          t < u /\ tasks[t].id > tasks[u].id
    /\ \E t \in DOMAIN tasks :
          tasks[t].dependencies = <<tasks[t].id, tasks[t].id>>

NoDuplicates(s) == \A k \in 1..Len(s) : \A q \in 1..Len(s) : s[k] = s[q] => k = q

\* C7: a recorded best solution maps exactly the batch indices, each to one
\* (device index, server index or None) pair, and no search state's allocated
\* list holds a task index twice.
C7_DecisionMapComplete ==
    /\ ~best_solution.none =>
          /\ DOMAIN best_solution.decisions = DOMAIN tasks
          /\ \A t \in DOMAIN tasks :
                best_solution.decisions[t] \in
                    (DOMAIN devices) \X (DOMAIN servers \cup {None})
    /\ \A e \in priority_queue : NoDuplicates(e.state.allocated)

\* The solver has returned the best solution of a batch of at least two tasks
\* on two devices and two servers, two of the tasks assigned to different
\* sites.
C7_Witness ==
    /\ pc = "returned"
    /\ pruning
    /\ ~best_solution.none
    /\ Size(tasks) >= 2
    /\ Size(devices) = 2
    /\ Size(servers) = 2
    /\ \E t \in DOMAIN tasks : \E u \in DOMAIN tasks :
          best_solution.decisions[t] # best_solution.decisions[u]

\* C8: every invocation of execute searches from all-zero device and server
\* loads, whatever loads the Device and Server objects carry from an earlier
\* run.
C8_SearchStartsFromZeroLoads ==
    pc = "searching" =>
        /\ ZeroLoads(initial_state.device_loads)
        /\ ZeroLoads(initial_state.server_loads)

\* C9: on a batch whose in-batch dependencies contain a cycle, execute does
\* not fail: it returns a decision map that allocates every task.
C9_CycleNeverRejected ==
    (Finished /\ ~Acyclic /\ DOMAIN devices # {}) =>
        /\ pc = "returned"
        /\ ~best_solution.none
        /\ DOMAIN best_solution.decisions = DOMAIN tasks

\* C10: when the search ends without any complete assignment, execute
\* returns without raising and leaves the device and server loads as they
\* were.
C10_NoSolutionReturnsEmpty ==
    (Finished /\ best_solution.none) =>
        /\ pc = "returned"
        /\ \A d \in DOMAIN devices :
              device_load[d] = initial_state.device_loads[devices[d].id]
        /\ \A sv \in DOMAIN servers :
              server_load[sv] = initial_state.server_loads[servers[sv].id]

\* C11: on an empty task list execute returns, without error, an empty
\* decision map and the triple (0, 0, 0), whatever the devices, the servers
\* and the loads they carry.
C11_EmptyBatchReturnsEmptyResult ==
    (Finished /\ Size(tasks) = 0) =>
        /\ pc = "returned"
        /\ best_solution = Solution(<<>>)
        /\ result = [total_delay |-> 0, total_energy |-> 0,
                     load_balance |-> BalanceZero]

\* The keys of the store, and the keys found in any LSH bucket.
StoreKeys(server_cache) ==
    {server_cache.items[k].key : k \in 1..Len(server_cache.items)}

BucketKeys(server_cache) ==
    UNION {SeqRange(server_cache.lsh_index.buckets[h]) :
             h \in DOMAIN server_cache.lsh_index.buckets}

\* C12: whenever _cache_result has returned, after any sequence of misses,
\* hits and evictions, the store of every server's cache holds at most
\* max_size entries.
C12_StoreWithinMaxSize ==
    \A id \in DOMAIN cache : Len(cache[id].items) <= cache[id].max_size

\* Some cache has evicted: its server executed more cycles than the cycles of
\* the tasks its full store still holds, and a lookup has hit as well.
C12_Witness ==
    /\ stats.cache_hits > 0
    /\ \E s \in DOMAIN servers :
         LET items == cache[servers[s].id].items
         IN  /\ Len(items) = MaxSize
             /\ server_load[s] >
                  SumSeq([k \in 1..Len(items) |-> items[k].key[2]])

\* Every insertion so far went into the cache of servers[s], and no lookup
\* has hit: no other server has executed anything.
InsertsOnly(s) ==
    /\ stats.cache_hits = 0
    /\ \A t \in DOMAIN servers \ {s} : server_load[t] = 0

\* C13: starting from an empty cache of a server, when max_size entries with
\* distinct keys have been inserted without any hit, the insertion of one more
\* leaves exactly max_size entries; the entry removed has the oldest timestamp
\* of the max_size + 1, its key is in neither the store nor any LSH bucket, and
\* the keys of all the others are in both.
C13_OldestEvictedAtMaxSizePlusOne ==
    [][\A s \in DOMAIN servers :
         (InsertsOnly(s) /\ stats.offloaded_tasks = MaxSize
            /\ OffloadExecute(s)) =>
           LET before == cache[servers[s].id]
               after == cache'[servers[s].id]
               inserted == StoreKeys(before)
                             \cup {HeuristicCacheKey(tasks[NextIdx])}
           IN  /\ Cardinality(inserted) = MaxSize + 1
               /\ Len(after.items) = MaxSize
               /\ \E k \in 1..Len(before.items) :
                    LET oldest == before.items[k]
                    IN  /\ \A q \in 1..Len(before.items) :
                             oldest.timestamp <= before.items[q].timestamp
                        /\ oldest.timestamp <= now
                        /\ oldest.key \notin StoreKeys(after)
                        /\ oldest.key \notin BucketKeys(after)
                        /\ StoreKeys(after) = inserted \ {oldest.key}
                        /\ BucketKeys(after) = inserted \ {oldest.key}]_vars

\* The cache of a server has taken max_size + 1 insertions and nothing else,
\* the last of them later than the first.
C13_Witness ==
    \E s \in DOMAIN servers :
        /\ InsertsOnly(s)
        /\ stats.offloaded_tasks = MaxSize + 1
        /\ stats.local_tasks > 0
        /\ Len(cache[servers[s].id].items) = MaxSize
        /\ \E k \in 1..MaxSize : cache[servers[s].id].items[k].timestamp > 0

\* C14: while the entry a task's insertion made is in a server's store, a
\* lookup on that server with that task's feature vector, at whatever age the
\* entry has reached, finds the entry's key in the bucket of the query, gives
\* it the weighted distance 0, and is a hit.
C14_SameFeaturesHit ==
    \A s \in DOMAIN servers : \A i \in DOMAIN tasks :
        LET server_cache == cache[servers[s].id]
            cache_key == HeuristicCacheKey(tasks[i])
            task_features == ExtractTaskFeatures(tasks[i])
        IN  cache_key \in StoreKeys(server_cache) =>
                /\ cache_key \in SeqRange(ALshSearch(server_cache,
                                                     task_features))
                /\ WeightedDistance(
                       task_features,
                       server_cache.items[ItemIndex(server_cache.items,
                                                    cache_key)],
                       now) = <<0, 1>>
                /\ CacheLookup(server_cache, tasks[i], now).hit

\* A store holds an aged entry of one task next to which another task's key
\* shares the bucket, and a lookup has refreshed an entry before.
C14_Witness ==
    /\ stats.cache_hits > 0
    /\ \E s \in DOMAIN servers :
         LET server_cache == cache[servers[s].id]
         IN  \E k \in 1..Len(server_cache.items) :
               /\ server_cache.items[k].timestamp < now
               /\ \E i \in DOMAIN tasks :
                    /\ HeuristicCacheKey(tasks[i]) = server_cache.items[k].key
                    /\ Len(ALshSearch(server_cache,
                                      ExtractTaskFeatures(tasks[i]))) > 0

\* The keys the bucket of the query's hash holds that are still keys of the
\* store, in the cache of servers[s], for the task the loop is at.
LiveCandidates(s) ==
    LET server_cache == cache[servers[s].id]
    IN  SeqRange(ALshSearch(server_cache, ExtractTaskFeatures(tasks[NextIdx])))
          \cap StoreKeys(server_cache)

\* The weighted distance from the task the loop is at to a key of the store.
DistanceTo(s, cache_key) ==
    LET server_cache == cache[servers[s].id]
    IN  WeightedDistance(ExtractTaskFeatures(tasks[NextIdx]),
                         server_cache.items[ItemIndex(server_cache.items,
                                                      cache_key)],
                         now)

\* The smallest weighted distance among the live candidates is below 0.2:
\* there is a live candidate, and the distance of one is below 0.2.
NearestBelowThreshold(s) ==
    \E nearest \in LiveCandidates(s) :
        RatLT(DistanceTo(s, nearest), ReuseThreshold)

\* C15: a lookup for a task offloaded to a server is a hit exactly when the
\* bucket of the query yields a key still in the store and the smallest
\* weighted distance among those keys is below 0.2, whether or not the key is
\* the task's own; when the bucket is missing or empty the lookup is a miss
\* and the offload is really executed on the server.
C15_HitIffNearestBelowThreshold ==
    [][\A s \in DOMAIN servers :
         (OffloadReuse(s) \/ OffloadExecute(s)) =>
           LET server_cache == cache[servers[s].id]
               task == tasks[NextIdx]
               bucket == ALshSearch(server_cache, ExtractTaskFeatures(task))
               hit == stats'.cache_hits = stats.cache_hits + 1
               offloaded ==
                   /\ stats'.offloaded_tasks = stats.offloaded_tasks + 1
                   /\ stats'.cache_hits = stats.cache_hits
                   /\ server_load'[s] = server_load[s] + task.computing_cycles
                   /\ HeuristicCacheKey(task) \in StoreKeys(cache'[servers[s].id])
           IN  /\ hit <=> NearestBelowThreshold(s)
               /\ hit <=> ~offloaded
               /\ bucket = <<>> => offloaded]_vars

\* A lookup has hit (on the entry of another task: no task is looked up
\* after its own insertion), and a later lookup has missed although its
\* bucket held a key of the store.
C15_Witness ==
    /\ stats.cache_hits > 0
    /\ lookup.made
    /\ ~lookup.hit
    /\ lookup.similar_items # <<>>

\* Comparisons of a balance value scaled / (1 + sqrt(vc2)), vc2 >= 0, with 0
\* and 100: it is at most 100 when scaled <= 100 or scaled - 100 <=
\* 100 * sqrt(vc2), and it is 100 when scaled - 100 = 100 * sqrt(vc2).
BalanceIsZero(b) == b.scaled[1] = 0

BalanceAtLeastZero(b) == b.scaled[1] >= 0

ExcessSquared(b) ==
    RatMul(RatSub(b.scaled, <<100, 1>>), RatSub(b.scaled, <<100, 1>>))

BalanceAtMost100(b) ==
    \/ RatLE(b.scaled, <<100, 1>>)
    \/ RatLE(ExcessSquared(b), RatMul(<<10000, 1>>, b.vc2))

BalanceIs100(b) ==
    /\ RatLE(<<100, 1>>, b.scaled)
    /\ ExcessSquared(b) = RatMul(<<10000, 1>>, b.vc2)

\* The loads of the pool, the servers that carry load, and the evaluation done.
PoolLoads == [k \in 1..Size(servers) |-> server_load[k - 1]]

Active == {s \in DOMAIN servers : server_load[s] > 0}

Evaluated == pc = "evaluated"

\* C16: for every vector of non-negative loads calculate_load_balance returns
\* a value b with 0 <= b <= 100.
C16_BalanceWithinRange ==
    Evaluated =>
        /\ BalanceAtLeastZero(result.load_balance)
        /\ BalanceAtMost100(result.load_balance)

\* A pool of three with three different loads, one of them 0, has been
\* evaluated to a value strictly between 0 and 100 with a damping that has an
\* irrational part.
C16_Witness ==
    /\ Evaluated
    /\ Size(servers) >= 3
    /\ Cardinality(SeqRange(PoolLoads)) >= 3
    /\ Active # DOMAIN servers
    /\ result.load_balance.scaled[1] > 0
    /\ result.load_balance.vc2[1] > 0

\* C17: calculate_load_balance returns exactly 0, and divides by zero nowhere,
\* when the pool is empty, when all loads are 0, and when exactly one of two
\* or more resources has a nonzero load.
C17_DegeneratePoolsGiveZero ==
    (Evaluated /\ (Active = {} \/ (Cardinality(Active) = 1
                                    /\ Size(servers) >= 2))) =>
        /\ BalanceIsZero(result.load_balance)
        /\ \A divisor \in EvaluatorDivisors(PoolLoads) : divisor[1] # 0

\* A pool of three in which exactly one server carries load has been
\* evaluated.
C17_Witness ==
    /\ Evaluated
    /\ Size(servers) >= 3
    /\ Cardinality(Active) = 1
    /\ EvaluatorDivisors(PoolLoads) # {}

ServerOf(task_idx) == best_solution.decisions[task_idx][2]

\* C19: on the batch of three independent tasks of 1e9, 2e9 and 1.5e9 cycles
\* without data, with one device of 1e9 Hz and two identical servers of 5e9
\* Hz, the decision map the solver returns offloads the tasks of 2e9 and of
\* 1.5e9 cycles to two different servers, and the balance reported is above 0.
C19_ScenarioSplitsLargestTasks ==
    (pc = "returned" /\ tasks = ScenarioTasks /\ servers = ScenarioServers
       /\ devices \in ScenarioDevices) =>
        /\ ServerOf(1) # None
        /\ ServerOf(2) # None
        /\ ServerOf(1) # ServerOf(2)
        /\ result.load_balance.scaled[1] > 0

\* The solver has returned on the scenario with all three tasks offloaded.
C19_Witness ==
    /\ pc = "returned"
    /\ tasks = ScenarioTasks
    /\ servers = ScenarioServers
    /\ devices \in ScenarioDevices
    /\ \A task_idx \in DOMAIN tasks : ServerOf(task_idx) # None
    /\ result.total_delay = 4

\* The frontier is empty and a best solution that decides every task of the
\* batch has been recorded.
SearchEndedComplete ==
    /\ pc = "searching"
    /\ priority_queue = {}
    /\ ~best_solution.none
    /\ DOMAIN best_solution.decisions = DOMAIN tasks

\* The search loop has started on a non-empty batch whose dependencies have
\* no cycle, with at least one device.
SearchStarted ==
    /\ pc = "searching"
    /\ Size(tasks) > 0
    /\ Acyclic
    /\ Size(devices) > 0

\* No branch of the frontier allocates more tasks than the batch has, and
\* none allocates a task twice.
BranchesBounded ==
    \A e \in priority_queue :
        /\ Len(e.state.allocated) <= Size(tasks)
        /\ Cardinality(SeqRange(e.state.allocated)) = Len(e.state.allocated)

\* C20: on a non-empty batch with acyclic dependencies, with at least one
\* device and any number of servers, the search loop of execute terminates:
\* the frontier becomes empty, a best solution deciding every task having
\* been recorded; no branch is longer than the number of tasks.
C20_SearchTerminatesComplete ==
    /\ [](SearchStarted => BranchesBounded)
    /\ SearchStarted ~> SearchEndedComplete

\* The search has ended on a batch of two tasks, one depending on the other,
\* after the frontier held a complete state that was cut by its bound.
C20_Witness ==
    /\ SearchEndedComplete
    /\ Size(tasks) >= 2
    /\ Acyclic
    /\ \E t \in DOMAIN tasks : InBatchDeps(t) # {}
    /\ pruning

\* The ids of the tasks of the batch, and the batch with every dependency id
\* that matches no task removed from the dependency lists.
BatchIds == {tasks[i].id : i \in DOMAIN tasks}

WithoutDangling ==
    [i \in DOMAIN tasks |->
       [tasks[i] EXCEPT
          !.dependencies = SelectSeq(@, LAMBDA id : id \in BatchIds)]]

\* C21: a dependency id that matches no task of the batch has no effect: the
\* order _topological_sort returns, in the solver and in the heuristic path,
\* and the solver's dependency map are those of the batch with such ids
\* removed from the dependency lists, and the sort returns (no error).
C21_DanglingDependencyDropped ==
    /\ BuildDependencies(tasks) = BuildDependencies(WithoutDangling)
    /\ pc = "ordered" => task_order = TopologicalSort(WithoutDangling)
    /\ pc = "executing" =>
          execution_order = HeuristicTopologicalSort(WithoutDangling)

\* The solver has sorted a batch in which a task names an id of no task
\* before an id of the batch, and that in-batch dependency stands later in the
\* batch than the task: the order differs from the batch order.
C21_Witness ==
    /\ pc = "ordered"
    /\ \E t \in DOMAIN tasks :
          /\ Len(tasks[t].dependencies) = 2
          /\ tasks[t].dependencies[1] \notin BatchIds
          /\ \E d \in InBatchDeps(t) : d > t
    /\ \E k \in 1..Len(task_order) : task_order[k] # k - 1

\* 1e-6 <= energy <= 1e6, for an energy counted in units of 1/TimeDen.
InClampRange(energy) ==
    /\ energy >= TimeDen \/ ClampLimit * energy >= TimeDen
    /\ energy <= ClampLimit * TimeDen

\* C22: every per-task energy the cost model produces lies in [1e-6, 1e6]:
\* in the solver, the energy of every search state that has allocated one
\* task, which is the energy of that task's local execution or offload.
C22_EnergyClamped ==
    \A e \in priority_queue :
        Len(e.state.allocated) = 1 => InClampRange(e.state.total_energy)

\* The records get_expert_data returned for the task of batch index t.
RecordsOf(t) ==
    {k \in 1..Len(expert.expert_data) :
        expert.expert_data[k].features.task_id = tasks[t].id}

\* The label of a record mirrors the decision for task t.
LabelMirrors(label, t) ==
    LET server_idx == best_solution.decisions[t][2]
    IN  IF server_idx = None
        THEN label.offload = 0 /\ label.server_id = -1
        ELSE label.offload = 1 /\ label.server_id = servers[server_idx].id

\* C23: get_expert_data returns exactly one {features, label} record per task
\* of the decision map, the label of each mirroring the decision (offload 0
\* and server_id -1 for local execution, offload 1 and the id of the chosen
\* server for an offload); called when there is no solution, it runs execute
\* first and returns the records only after execute has returned.
C23_ExpertDataMirrorsDecisions ==
    /\ [](expert.returned =>
            /\ pc = "returned"
            /\ ~best_solution.none
            /\ Len(expert.expert_data)
                  = Cardinality(DOMAIN best_solution.decisions)
            /\ \A t \in DOMAIN best_solution.decisions :
                  /\ Cardinality(RecordsOf(t)) = 1
                  /\ \A k \in RecordsOf(t) :
                        LabelMirrors(expert.expert_data[k].label, t))
    /\ [][(GetExpertData /\ best_solution.none) =>
            /\ pc' = "searching"
            /\ priority_queue' # {}
            /\ ~expert'.returned]_vars

\* get_expert_data, called before any execute, has run execute and returned
\* the records of a chain of two tasks, one run locally and one offloaded to
\* a server whose id is not its position in the list of servers.
C23_Witness ==
    /\ expert.returned
    /\ result.total_delay > 0
    /\ Len(expert.expert_data) = 2
    /\ tasks[1].dependencies # <<>>
    /\ \E k \in 1..2 : expert.expert_data[k].label.offload = 0
    /\ \E k \in 1..2 :
          /\ expert.expert_data[k].label.offload = 1
          /\ \A s \in DOMAIN servers :
                expert.expert_data[k].label.server_id # s

\* The number of states of the whole branching tree down to a depth.
RECURSIVE TreeSize(_)
TreeSize(depth) == IF depth = 0 THEN 1 ELSE 1 + NumSites * TreeSize(depth - 1)

\* C24: with the pruning of execute in force, in every iteration of the
\* search loop: a child is pushed only if its bound is strictly below
\* best_cost; a popped state whose bound is >= best_cost is discarded, nothing
\* else changing; while best_cost is infinite a branching pushes every child;
\* and best_cost changes only to the strictly lower true cost of the popped
\* state, which is complete.
C24_PruningChecks ==
    [][(pruning /\ Searching /\ SearchLoop) =>
         LET e == HeapMin(priority_queue)
             pushed == priority_queue' \ priority_queue
         IN  /\ \A child \in pushed : CostLT(child.bound, best_cost)
             /\ CostGE(e.bound, best_cost) =>
                   /\ priority_queue' = priority_queue \ {e}
                   /\ UNCHANGED <<best_cost, best_solution, state_counter>>
             /\ (best_cost.inf /\ PopBranch) =>
                   /\ Cardinality(pushed) = NumSites
                   /\ state_counter' = state_counter + NumSites
             /\ best_cost' # best_cost =>
                   /\ CostLT(best_cost', best_cost)
                   /\ Len(e.state.allocated) = Size(tasks)
                   /\ best_cost' = CalculateCost(e.state)
                   /\ best_solution' = Solution(e.state.decisions)]_vars

\* A pruned search of two tasks on two devices and two servers has ended with
\* a solution, having created fewer states than the branching tree holds.
C24_Witness ==
    /\ pc = "searching"
    /\ priority_queue = {}
    /\ pruning
    /\ ~best_cost.inf
    /\ Size(tasks) >= 2
    /\ NumSites >= 6
    /\ state_counter < TreeSize(Size(tasks))

\* The sum of the computing_cycles of a set of tasks of the batch.
RECURSIVE CyclesOf(_)
CyclesOf(S) ==
    IF S = {} THEN 0
    ELSE LET t == CHOOSE t \in S : TRUE
         IN  tasks[t].computing_cycles + CyclesOf(S \ {t})

\* The tasks the returned map runs locally on devices[d], and those it
\* offloads to servers[sv].
RunsOnDevice(d) ==
    {t \in DOMAIN best_solution.decisions :
        best_solution.decisions[t] = <<d, None>>}

RunsOnServer(sv) ==
    {t \in DOMAIN best_solution.decisions :
        best_solution.decisions[t][2] = sv}

\* C25: after execute has found a solution (a decision map that is not
\* empty, the test before _apply_solution), every device's current_load is
\* the sum of the computing_cycles of the tasks the map runs locally on it and
\* every server's current_load the sum for the tasks offloaded to it; the
\* loads carried before the call do not count, and a resource the map does
\* not use has load 0.
C25_LoadsFollowReturnedMap ==
    (pc = "returned" /\ Truthy(best_solution)) =>
        /\ \A d \in DOMAIN devices :
              /\ device_load[d] = CyclesOf(RunsOnDevice(d))
              /\ RunsOnDevice(d) = {} => device_load[d] = 0
        /\ \A sv \in DOMAIN servers :
              /\ server_load[sv] = CyclesOf(RunsOnServer(sv))
              /\ RunsOnServer(sv) = {} => server_load[sv] = 0

\* A second invocation on the same devices and servers has returned a
\* solution of two tasks: a server that carried load before the call is not
\* used by the map and has load 0, and another server runs both tasks.
C25_Witness ==
    /\ pc = "returned"
    /\ runs = 2
    /\ Truthy(best_solution)
    /\ Size(tasks) = 2
    /\ \E sv \in DOMAIN servers :
          /\ initial_state.server_loads[servers[sv].id] > 0
          /\ RunsOnServer(sv) = {}
          /\ server_load[sv] = 0
    /\ \E sv \in DOMAIN servers : Cardinality(RunsOnServer(sv)) = 2

\* min(current_score + 0.1 * time_factor, 1.0) for an entry of the given
\* score and age.
RaisedScore(score, age) ==
    LET raised == RatAdd(score, RatMul(ScoreGain, TimeDecay(age)))
    IN  IF RatLE(<<1, 1>>, raised) THEN <<1, 1>> ELSE raised

\* C26: a cache hit on a server changes, of that server's cache, only the
\* score and the timestamp of the entry hit: the score gains the decayed
\* increment, capped at 1.0, and stays within [0, 1]; the timestamp becomes
\* the current time; the current_load of every server and device, the keys of
\* the store, the other entries, every LSH bucket and the caches of the other
\* servers are unchanged.
C26_HitUpdatesScoreAndTimestampOnly ==
    [][\A s \in DOMAIN servers :
         OffloadReuse(s) =>
           LET before == cache[servers[s].id]
               after == cache'[servers[s].id]
               k == ItemIndex(before.items, lookup'.similar_items[1].key)
           IN  /\ k # 0
               /\ server_load' = server_load
               /\ device_load' = device_load
               /\ Len(after.items) = Len(before.items)
               /\ StoreKeys(after) = StoreKeys(before)
               /\ after.lsh_index = before.lsh_index
               /\ after.max_size = before.max_size
               /\ \A q \in 1..Len(before.items) :
                     q # k => after.items[q] = before.items[q]
               /\ after.items[k].key = before.items[k].key
               /\ after.items[k].features = before.items[k].features
               /\ after.items[k].timestamp = now
               /\ after.items[k].score
                     = RaisedScore(before.items[k].score,
                                   now - before.items[k].timestamp)
               /\ RatLE(before.items[k].score, after.items[k].score)
               /\ RatLE(<<0, 1>>, after.items[k].score)
               /\ RatLE(after.items[k].score, <<1, 1>>)
               /\ \A id \in DOMAIN cache \ {servers[s].id} :
                     cache'[id] = cache[id]]_vars

\* The last lookup hit an entry that had aged (its weighted distance was
\* above 0), and the timestamp of that entry is now the current time.
C26_Witness ==
    /\ lookup.made
    /\ lookup.hit
    /\ lookup.similar_items[1].dist[1] > 0
    /\ \E id \in DOMAIN cache :
          \E k \in 1..Len(cache[id].items) :
              /\ cache[id].items[k].key = lookup.similar_items[1].key
              /\ cache[id].items[k].timestamp = now
              /\ now > 0

\* C27: after a cache miss for a task on a server (max_size >= 1), the
\* server's current_load has grown by the task's computing_cycles, the store
\* of the server holds the task's cache key with score 1.0 and the time of
\* the insertion as timestamp, and the LSH bucket of the hash of the task's
\* features holds that key.
C27_MissExecutesAndInserts ==
    [][\A s \in DOMAIN servers :
         (OffloadExecute(s) /\ cache[servers[s].id].max_size >= 1) =>
           LET after == cache'[servers[s].id]
               task == tasks[NextIdx]
               cache_key == HeuristicCacheKey(task)
               hash_str == ComputeLshHash(after, ExtractTaskFeatures(task))
               k == ItemIndex(after.items, cache_key)
           IN  /\ server_load'[s] = server_load[s] + task.computing_cycles
               /\ k # 0
               /\ after.items[k].score = <<1, 1>>
               /\ after.items[k].timestamp = now
               /\ after.items[k].features = ExtractTaskFeatures(task)
               /\ hash_str \in DOMAIN after.lsh_index.buckets
               /\ cache_key \in SeqRange(after.lsh_index.buckets[hash_str])]_vars

\* The last lookup missed although its bucket held a key of the store, the
\* task was inserted at a time after 0 into a store that was full, and the
\* older entry was evicted for it.
C27_Witness ==
    /\ lookup.made
    /\ ~lookup.hit
    /\ lookup.similar_items # <<>>
    /\ now > 0
    /\ \E id \in DOMAIN cache :
          /\ Len(cache[id].items) = MaxSize
          /\ cache[id].items[Len(cache[id].items)].timestamp = now
          /\ cache[id].items[Len(cache[id].items)].features
                = lookup.task_features
          /\ lookup.similar_items[1].key \notin StoreKeys(cache[id])

\* The entries of a store that are no longer in it after a step.
Evicted(before, after) ==
    {k \in 1..Len(before.items) :
        before.items[k].key \notin StoreKeys(after)}

\* C28: eviction follows the time of the last write or hit: in every step, an
\* entry that leaves a store has a timestamp no later than the timestamp of
\* every entry the store still holds, so that of two entries the one with the
\* later timestamp (written or hit later) is never evicted while the other
\* stays; and entries leave a store only when an insertion takes it above
\* max_size.
C28_EvictionFollowsTimestamps ==
    [][\A id \in DOMAIN cache :
         LET before == cache[id]
             after == cache'[id]
         IN  /\ \A k \in Evicted(before, after) :
                   /\ \A q \in 1..Len(after.items) :
                         before.items[k].timestamp <= after.items[q].timestamp
                   /\ \A q \in 1..Len(before.items) :
                         before.items[q].timestamp < before.items[k].timestamp
                           => q \in Evicted(before, after)
             /\ Evicted(before, after) # {} =>
                   /\ Len(before.items) = before.max_size
                   /\ Len(after.items) = after.max_size
                   /\ stats'.offloaded_tasks = stats.offloaded_tasks + 1]_vars

\* A store of two entries has met an eviction after a hit: the entry written
\* first, refreshed by the hit, is still held, and the entry written second,
\* whose timestamp was older by then, has been evicted.
C28_Witness ==
    /\ stats.cache_hits > 0
    /\ Size(tasks) >= 4
    /\ \E id \in DOMAIN cache :
          /\ Len(cache[id].items) = 2
          /\ cache[id].max_size = 2
          /\ HeuristicCacheKey(tasks[0]) \in StoreKeys(cache[id])
          /\ HeuristicCacheKey(tasks[1]) \notin StoreKeys(cache[id])
          /\ HeuristicCacheKey(tasks[3]) \in StoreKeys(cache[id])
          /\ server_load[0] = tasks[0].computing_cycles
                + tasks[1].computing_cycles + tasks[3].computing_cycles

\* The places (bucket, position) of the keys listed in the buckets of a cache.
BucketEntries(server_cache) ==
    LET buckets == server_cache.lsh_index.buckets
    IN  UNION {{<<h, k>> : k \in 1..Len(buckets[h])} : h \in DOMAIN buckets}

\* C29: in every reachable state of a server's cache, every key held in a
\* bucket is a key of the store, every key of the store is held in the bucket
\* of the hash of its current features, and no key occurs twice in a bucket
\* or in two buckets.
C29_BucketsMatchStore ==
    \A id \in DOMAIN cache :
       LET server_cache == cache[id]
           buckets == server_cache.lsh_index.buckets
           entries == BucketEntries(server_cache)
       IN  /\ \A e \in entries :
                 ItemIndex(server_cache.items, buckets[e[1]][e[2]]) # 0
           /\ \A i \in 1..Len(server_cache.items) :
                 LET hash_str == ComputeLshHash(server_cache,
                                     server_cache.items[i].features)
                 IN  /\ hash_str \in DOMAIN buckets
                     /\ \E k \in 1..Len(buckets[hash_str]) :
                           buckets[hash_str][k] = server_cache.items[i].key
           /\ \A e, f \in entries :
                 buckets[e[1]][e[2]] = buckets[f[1]][f[2]] => e = f

\* a <= b for non-negative rationals, by integer parts and then remainders:
\* the products stay below those of RatLE.
RatLEByParts(a, b) ==
    \/ a[1] \div a[2] < b[1] \div b[2]
    \/ /\ a[1] \div a[2] = b[1] \div b[2]
       /\ (a[1] % a[2]) * b[2] <= (b[1] % b[2]) * a[2]

\* C30: serving a task from the cache never costs more than executing the
\* offload: for every device, server and task the cache-reuse delay is at
\* most the offload delay and the cache-reuse energy at most the offload
\* energy, in the solver's cost functions and in the heuristic path's.
C30_ReuseNeverCostsMore ==
    /\ costs.solver.made =>
          /\ costs.solver.reuse[1] <= costs.solver.offload[1]
          /\ costs.solver.reuse[2] <= costs.solver.offload[2]
    /\ costs.heuristic.made =>
          /\ RatLEByParts(costs.heuristic.reuse[1],
                          costs.heuristic.offload[1])
          /\ RatLEByParts(costs.heuristic.reuse[2],
                          costs.heuristic.offload[2])

=============================================================================
